---- MODULE Spec2Model ----
(***************************************************************************)
(* Model of the RAG-agent repository: the response streamer, the session   *)
(* manager (AgentManager, in its two versions), and the knowledge store    *)
(* with its retriever and embedding provider.                              *)
(*                                                                         *)
(* A text is a sequence of characters; a character is a one-element token. *)
(* "NL" is the newline, "SP" the blank; the four stage markers are spelled *)
(* with their own six characters each, as in the source.                   *)
(***************************************************************************)
EXTENDS Integers, Sequences, FiniteSets, TLC

\* ------------------------------------------------------------------ text

NL == "NL"
SP == "SP"

\* str.strip() / str.split() whitespace
IsSpace(c) == c \in {NL, SP}

\* re.sub(r'[\x00-\x1F\x7F]', '', text): the control characters
IsControl(c) == c \in {NL}

\* str.lower() on the characters of the model
UpperCase == <<"A", "B", "D", "F", "I", "L", "N", "P", "R", "S", "T">>

LowerCase == <<"a", "b", "d", "f", "i", "l", "n", "p", "r", "s", "t">>

LowerChar(c) ==
    IF \E i \in 1..Len(UpperCase) : UpperCase[i] = c
    THEN LowerCase[CHOOSE i \in 1..Len(UpperCase) : UpperCase[i] = c]
    ELSE c

Lower(t) == [i \in 1..Len(t) |-> LowerChar(t[i])]

RECURSIVE LStrip(_)
LStrip(t) == IF t = <<>> THEN <<>>
             ELSE IF IsSpace(Head(t)) THEN LStrip(Tail(t)) ELSE t

RECURSIVE RStrip(_)
RStrip(t) == IF t = <<>> THEN <<>>
             ELSE IF IsSpace(t[Len(t)]) THEN RStrip(SubSeq(t, 1, Len(t) - 1)) ELSE t

\* str.strip()
Strip(t) == RStrip(LStrip(t))

\* str.find(sep) + 1: the first position where sep occurs in t, 0 when none
FirstOcc(t, sep) ==
    LET hits == {i \in 1..(Len(t) - Len(sep) + 1) : SubSeq(t, i, i + Len(sep) - 1) = sep}
    IN  IF hits = {} THEN 0 ELSE CHOOSE i \in hits : \A j \in hits : i <= j

\* sub in t
IsSubstr(sub, t) == FirstOcc(t, sub) /= 0

\* str.split(sep) for a non-empty separator
RECURSIVE Split(_, _)
Split(t, sep) ==
    LET i == FirstOcc(t, sep)
    IN  IF i = 0 THEN <<t>>
        ELSE <<SubSeq(t, 1, i - 1)>> \o Split(SubSeq(t, i + Len(sep), Len(t)), sep)

\* str.replace(m, ""): every non-overlapping occurrence, left to right, one pass
RECURSIVE Remove(_, _)
Remove(t, m) ==
    LET i == FirstOcc(t, m)
    IN  IF i = 0 THEN t
        ELSE SubSeq(t, 1, i - 1) \o Remove(SubSeq(t, i + Len(m), Len(t)), m)

\* "".join(chunks)
RECURSIVE Concat(_)
Concat(chunks) == IF chunks = <<>> THEN <<>> ELSE Head(chunks) \o Concat(Tail(chunks))

\* AgentManager._clean_text: drops the control characters
RECURSIVE CleanText(_)
CleanText(t) ==
    IF t = <<>> THEN <<>>
    ELSE IF IsControl(Head(t)) THEN CleanText(Tail(t))
         ELSE <<Head(t)>> \o CleanText(Tail(t))

\* ResearchFlowAgent._clean_input
CleanInput(t) == Strip(CleanText(t))

\* -------------------------------------------------------------- streamer

\* the chunks of one line: its characters, or one newline for a blank line,
\* then the newline that separates it from the next line
LineChunks(lines, j) ==
    LET line == lines[j]
    IN  (IF Strip(line) /= <<>> THEN [k \in 1..Len(line) |-> <<line[k]>>]
         ELSE << <<NL>> >>)
        \o (IF j < Len(lines) THEN << <<NL>> >> ELSE <<>>)

RECURSIVE LinesFrom(_, _)
LinesFrom(lines, j) ==
    IF j > Len(lines) THEN <<>> ELSE LineChunks(lines, j) \o LinesFrom(lines, j + 1)

\* the chunks of one paragraph
ParagraphChunks(paragraphs, p) ==
    LET paragraph == paragraphs[p]
    IN  IF Strip(paragraph) = <<>> THEN << <<NL, NL>> >>
        ELSE LinesFrom(Split(paragraph, <<NL>>), 1)
             \o (IF p < Len(paragraphs) THEN << <<NL, NL>> >> ELSE <<>>)

RECURSIVE ParagraphsFrom(_, _)
ParagraphsFrom(paragraphs, p) ==
    IF p > Len(paragraphs) THEN <<>>
    ELSE ParagraphChunks(paragraphs, p) \o ParagraphsFrom(paragraphs, p + 1)

\* AgentManager._typewriter_output: the sequence of chunks it yields
TypewriterOutput(text) ==
    IF text = <<>> THEN <<>> ELSE ParagraphsFrom(Split(text, <<NL, NL>>), 1)

\* ------------------------------------------------------ literal strings

Rep(c, n) == [i \in 1..n |-> c]

Min(a, b) == IF a <= b THEN a ELSE b

\* the markers of _execute_autogen_workflow, in the order the code removes them
MarkerFinal  == <<"[", "zui", "zhong", "hui", "da", "]">>
MarkerDesign == <<"[", "she", "ji", "wan", "cheng", "]">>
MarkerValid  == <<"[", "yan", "zheng", "wan", "cheng", "]">>
MarkerFlow   == <<"[", "liu", "cheng2", "wan", "cheng", "]">>

Markers == <<MarkerFinal, MarkerDesign, MarkerValid, MarkerFlow>>

\* the placeholder of _execute_autogen_workflow (8 characters)
PlaceholderText == Rep("p", 8)

\* the advisory message of generate_response (18 characters); the typewriter
\* version yields it with a newline appended
AdvisoryText == Rep("v", 18)

AdvisoryChunk == AdvisoryText \o <<NL>>

\* f"设计阶段API错误: {status}", f"最终整合API错误: {status}" (11 + 3 characters)
ErrorTextWithoutCode(code) == Rep("d", 11)

DesignErrorText(code) == Rep("d", 11) \o code

SynthErrorText(code) == Rep("s", 11) \o code

\* f"备用方案失败: {e}" (8 characters and the exception's text)
FallbackFailedText(msg) == Rep("f", 8) \o msg

\* f"API错误: {e}" of the legacy _call_deepseek (7 characters and the text)
ApiErrorText(msg) == Rep("e", 7) \o msg

\* str(e) of the exceptions the model raises
TimeoutMsg == Rep("t", 24)

KeyErrorMsg == Rep("k", 9)

RetrievalMsg == Rep("r", 12)

StatusMsg == Rep("h", 24)

\* the shortest response the typewriter version accepts from the primary path
MIN_RESPONSE_LEN == 20

\* the shortest response the legacy version accepts from the group chat
LEGACY_MIN_RESPONSE_LEN == 10

\* Config.MAX_INTERACTION_COUNT
MAX_INTERACTION_COUNT == 5

\* the history cap of _update_conversation_history
HISTORY_CAP == 8

\* item['content'][:150] in _fallback_response
KNOWLEDGE_PREVIEW_LEN == 150

\* ------------------------------------------- the environment of a query
\* What the world answers during one query: the retriever, the group chat
\* and the chat-completion endpoint. A query's handler is a function of the
\* manager's state and of these answers.

\* an HTTP exchange with the chat-completion endpoint:
\*   "raise"     requests.post raises (timeout, connection error)
\*   "status"    a response whose status_code is not 200 (content: the code)
\*   "malformed" status 200, the body lacks choices[0].message.content
\*   "ok"        status 200, content is the model's text
HttpRaise == [kind |-> "raise", content |-> <<>>]

HttpStatus(code) == [kind |-> "status", content |-> code]

HttpMalformed == [kind |-> "malformed", content |-> <<>>]

HttpOk(text) == [kind |-> "ok", content |-> text]

Code500 == <<"5", "0", "0">>

\* a message of the group chat
Msg(name, role, content) == [name |-> name, role |-> role, content |-> content]

\* the outcome of initiate_chat: it raises, or returns a chat result
ChatRaise == [kind |-> "raise", history |-> <<>>, summary |-> <<>>]

ChatResult(history, summary) == [kind |-> "ok", history |-> history, summary |-> summary]

\* ------------------------------------------------- the fallback path

\* knowledge_text of _fallback_response
RECURSIVE KnowledgeLines(_)
KnowledgeLines(results) ==
    IF results = <<>> THEN <<>>
    ELSE <<"-", SP>>
         \o SubSeq(Head(results), 1, Min(Len(Head(results)), KNOWLEDGE_PREVIEW_LEN))
         \o <<NL>> \o KnowledgeLines(Tail(results))

KnowledgeText(results) == <<"K_header", NL>> \o KnowledgeLines(results)

\* design_prompt and final_prompt of _fallback_response; the fixed parts of
\* the templates are one token each
DesignPrompt(knowledge_text, query) ==
    knowledge_text \o <<NL, NL, "P_design_task">> \o query \o <<NL, NL, "P_design_rules">>

FinalPromptDropsDesign(query, knowledge_text, design_content) ==
    <<"P_question">> \o query \o <<NL, NL, "P_knowledge", NL>> \o knowledge_text
    \o <<NL, NL, "P_design", NL>> \o <<NL, NL, "P_final_task">>

FinalPrompt(query, knowledge_text, design_content) ==
    <<"P_question">> \o query \o <<NL, NL, "P_knowledge", NL>> \o knowledge_text
    \o <<NL, NL, "P_design", NL>> \o design_content \o <<NL, NL, "P_final_task">>

Request(stage, prompt) == [stage |-> stage, prompt |-> prompt]

\* what one fallback invocation did: the text it returned, the requests it
\* sent, the endpoint's answers to them, the retrievals it made and whether
\* its retrieval returned
Did(text, requests, answers, retrievals, retrieved) ==
    [text |-> text, requests |-> requests, answers |-> answers, retrievals |-> retrievals,
     retrieved |-> retrieved]

\* AgentManager._fallback_response (typewriter version).
\*   retrieval: what retrieve_knowledge does, it raises or returns results
\*   design, synthesis: the endpoint's answers to the two requests
FallbackResponse(query, retrieval, design, synthesis) ==
    IF retrieval.kind = "raise"
    THEN Did(FallbackFailedText(RetrievalMsg), <<>>, <<>>, 1, FALSE)
    ELSE
      LET knowledge_text == KnowledgeText(retrieval.results)
          design_request == Request("design", DesignPrompt(knowledge_text, query))
          one == <<design_request>>
      IN  CASE design.kind = "raise" ->
                 Did(FallbackFailedText(TimeoutMsg), one, <<design>>, 1, TRUE)
            [] design.kind = "status" ->
                 Did(DesignErrorText(design.content), one, <<design>>, 1, TRUE)
            [] design.kind = "malformed" ->
                 Did(FallbackFailedText(KeyErrorMsg), one, <<design>>, 1, TRUE)
            [] design.kind = "ok" ->
                 LET final_request ==
                         Request("synthesis",
                                 FinalPrompt(query, knowledge_text, design.content))
                     both == <<design_request, final_request>>
                     answers == <<design, synthesis>>
                 IN  CASE synthesis.kind = "raise" ->
                            Did(FallbackFailedText(TimeoutMsg), both, answers, 1, TRUE)
                       [] synthesis.kind = "status" ->
                            Did(SynthErrorText(synthesis.content), both, answers, 1, TRUE)
                       [] synthesis.kind = "malformed" ->
                            Did(FallbackFailedText(KeyErrorMsg), both, answers, 1, TRUE)
                       [] synthesis.kind = "ok" ->
                            Did(synthesis.content, both, answers, 1, TRUE)

\* ------------------------------------------------- the primary path

\* the last of the positions hits of a message list, 0 when there is none
LastWhere(hits) ==
    IF hits = {} THEN 0 ELSE CHOOSE i \in hits : \A j \in hits : j <= i

IsSynthesisMessage(msg) == msg.name = "DeepSeek_Agent"

IsSynthesisAnswer(msg) == msg.name = "DeepSeek_Agent" /\ msg.content /= <<>>

IsAnyAssistant(msg) == msg.role = "assistant"

IsOtherAssistant(msg) ==
    msg.role = "assistant" /\ msg.name \notin {"User_Proxy", "Knowledge_Retriever"}

\* "提取最终回答" of _execute_autogen_workflow: methods 1, 2 and 3
ExtractFinalResponse(chat) ==
    LET m1 == LastWhere({i \in 1..Len(chat.history) : IsSynthesisAnswer(chat.history[i])})
        r1 == IF m1 = 0 THEN <<>> ELSE chat.history[m1].content
        m2 == LastWhere({i \in 1..Len(chat.history) : IsOtherAssistant(chat.history[i])})
        r2 == IF r1 /= <<>> THEN r1
              ELSE IF m2 = 0 THEN <<>> ELSE chat.history[m2].content
    IN  IF r2 /= <<>> THEN r2 ELSE chat.summary

RECURSIVE RemoveEach(_, _)
RemoveEach(t, markers) ==
    IF markers = <<>> THEN t ELSE RemoveEach(Remove(t, Head(markers)), Tail(markers))

\* "清理标记" of _execute_autogen_workflow
StripMarkers(final_response) ==
    IF final_response = <<>> THEN <<>> ELSE Strip(RemoveEach(final_response, Markers))

\* _execute_autogen_workflow: the text it returns, the fallback invocations
\* it made and whether the primary path raised
ExecuteAutogenWorkflow(query, env) ==
    IF env.chat.kind = "raise"
    THEN LET fb == FallbackResponse(query, env.retrieval, env.design, env.synthesis)
         IN  [text |-> fb.text, primary |-> "raised", fallbacks |-> <<fb>>,
              retrievals |-> 1 + fb.retrievals]
    ELSE LET final_response == StripMarkers(ExtractFinalResponse(env.chat))
         IN  [text |-> IF final_response /= <<>> THEN final_response ELSE PlaceholderText,
              primary |-> "returned", fallbacks |-> <<>>, retrievals |-> 1]

\* "检查是否为空" of generate_response_with_typewriter
TooShortNever(text) == FALSE

TooShort(text) == text = <<>> \/ Len(Strip(text)) < MIN_RESPONSE_LEN

\* generate_response_with_typewriter below the interaction cap, up to the
\* history update
TypewriterRun(query, env) ==
    LET wf == ExecuteAutogenWorkflow(query, env)
        fb == FallbackResponse(query, env.retrieval, env.design2, env.synthesis2)
        again == TooShort(wf.text)
        final_response == IF again THEN fb.text ELSE wf.text
        chunks == TypewriterOutput(final_response)
    IN  [primary |-> wf.primary,
         primary_text |-> wf.text,
         fallbacks |-> IF again THEN Append(wf.fallbacks, fb) ELSE wf.fallbacks,
         retrievals |-> wf.retrievals + (IF again THEN fb.retrievals ELSE 0),
         chat_runs |-> 1,
         chat_summary |-> env.chat.summary,
         stream_input |-> final_response,
         chunks |-> chunks,
         result |-> Concat(chunks),
         raised |-> FALSE]

\* a rejected query: nothing ran
Rejected(chunks) ==
    [primary |-> "none", primary_text |-> <<>>, fallbacks |-> <<>>, retrievals |-> 0,
     chat_runs |-> 0, chat_summary |-> <<>>, stream_input |-> <<>>, chunks |-> chunks,
     result |-> Concat(chunks), raised |-> FALSE]

\* the entries in the other order
TypewriterEntriesSwapped(query, response, now) ==
    << [role |-> "assistant", content |-> CleanText(response), timestamp |-> now],
       [role |-> "user", content |-> CleanText(query), timestamp |-> now] >>

\* the two entries _update_conversation_history appends (typewriter version)
TypewriterEntries(query, response, now) ==
    << [role |-> "user", content |-> CleanText(query), timestamp |-> now],
       [role |-> "assistant", content |-> CleanText(response), timestamp |-> now] >>

\* the two entries _update_conversation_history appends (legacy version)
LegacyEntries(query, response) ==
    << [role |-> "user", content |-> query],
       [role |-> "assistant", content |-> response] >>

\* conversation_history[-8:]
KeepOldest(history) == SubSeq(history, 1, Min(Len(history), HISTORY_CAP))

KeepLatest(history) ==
    IF Len(history) > HISTORY_CAP
    THEN SubSeq(history, Len(history) - HISTORY_CAP + 1, Len(history))
    ELSE history

\* the legacy _call_deepseek: it never raises
CallDeepseek(http) ==
    CASE http.kind = "raise" -> ApiErrorText(TimeoutMsg)
      [] http.kind = "status" -> ApiErrorText(StatusMsg)
      [] http.kind = "malformed" -> ApiErrorText(KeyErrorMsg)
      [] http.kind = "ok" -> http.content

IsDeepSeekMessage(msg) == msg.name = "DeepSeek_Agent"

LegacyTooShort(text) == text = <<>> \/ Len(Strip(text)) < LEGACY_MIN_RESPONSE_LEN

\* the legacy generate_response below the interaction cap.
\*   messages: group_chat.messages before the call
LegacyRun(query, env, messages) ==
    IF env.retrieval.kind = "raise"
    THEN \* the try block raises in retrieve_knowledge; so does _fallback_response
         [primary |-> "raised", primary_text |-> <<>>, fallbacks |-> <<>>, retrievals |-> 2,
          chat_runs |-> 0, stream_input |-> <<>>, chunks |-> <<>>, result |-> <<>>,
          raised |-> TRUE, messages |-> messages, recorded |-> FALSE,
          chat_summary |-> <<>>]
    ELSE IF env.chat.kind = "raise"
    THEN LET response == CallDeepseek(env.design)
         IN  [primary |-> "raised", primary_text |-> <<>>,
              fallbacks |-> <<Did(response, <<Request("direct", <<>>)>>, <<env.design>>, 1, TRUE)>>,
              retrievals |-> 2, chat_runs |-> 1, stream_input |-> <<>>, chunks |-> <<>>,
              result |-> response, raised |-> FALSE, messages |-> messages,
              recorded |-> TRUE, chat_summary |-> <<>>]
    ELSE LET after == messages \o env.chat.history
             m == LastWhere({i \in 1..Len(after) : IsDeepSeekMessage(after[i])})
             found == IF m = 0 THEN <<>> ELSE after[m].content
             direct == LegacyTooShort(found)
             response == IF direct THEN CallDeepseek(env.design) ELSE found
         IN  [primary |-> "returned", primary_text |-> found,
              fallbacks |-> IF direct
                            THEN <<Did(response, <<Request("direct", <<>>)>>, <<env.design>>, 0, TRUE)>>
                            ELSE <<>>,
              retrievals |-> 1, chat_runs |-> 1, stream_input |-> <<>>, chunks |-> <<>>,
              result |-> response, raised |-> FALSE, messages |-> after,
              recorded |-> TRUE, chat_summary |-> <<>>]

\* ------------------------------------------------ embedding provider
\* A vector is a dimension and a direction; the directions of the model are
\* unit vectors along an axis, so the cosine of two vectors of one dimension
\* is their dot product. Similarities are counted in thirtieths, the unit in
\* which the keyword scores (halves divided by 3, capped at 9/10) are whole.

Vec(dim, dir) == [dim |-> dim, dir |-> dir]

\* np.random.randn(384) in _generate_fallback_embedding
FALLBACK_DIM == 384

\* int(md5(text).hexdigest()[:8], 16): a number fixed by the text; the model
\* keeps two of them
Md5Seed(text) == Len(text) % 2

\* the state of numpy's global generator: the seed it was last given and the
\* number of draws made since (counted modulo 2)
RandomState(seed, drawn) == [seed |-> seed, drawn |-> drawn]

\* np.random.seed(seed): the state before is forgotten
SeedSkipped(state, seed) == state

Seeded(state, seed) == RandomState(seed, 0)

\* np.random.randn(384), normalised: the vector drawn and the state left
Randn(state) ==
    [vec |-> Vec(FALLBACK_DIM,
                 IF (state.seed + state.drawn) % 2 = 0 THEN <<0, 1>> ELSE <<0, -1>>),
     state |-> RandomState(state.seed, (state.drawn + 1) % 2)]

\* BaiduEmbeddingAPI._generate_fallback_embedding on the generator in state
GenerateFallbackEmbedding(state, text) == Randn(Seeded(state, Md5Seed(text)))

\* BaiduEmbeddingAPI._generate_fallback_embedding: a unit vector fixed by the
\* text alone (the md5 of the text seeds the generator)
FallbackEmbedding(text) == GenerateFallbackEmbedding(RandomState(0, 0), text).vec

\* the answer of the embedding endpoint to one request: a failure (network
\* error, status other than 200, malformed body), or a vector
ApiFail == [ok |-> FALSE, vec |-> Vec(0, <<0, 0>>)]

ApiOk(vec) == [ok |-> TRUE, vec |-> vec]

\* what requests.post gives _call_new_api: an exception (network error,
\* timeout), a status other than 200, a 200 whose body has no usable "data",
\* or a 200 carrying a vector
EndpointRaise == [kind |-> "raise", vec |-> Vec(0, <<0, 0>>)]

EndpointStatus == [kind |-> "status", vec |-> Vec(0, <<0, 0>>)]

EndpointMalformed == [kind |-> "malformed", vec |-> Vec(0, <<0, 0>>)]

EndpointOk(vec) == [kind |-> "ok", vec |-> vec]

\* BaiduEmbeddingAPI._call_new_api (and _call_legacy_api): None unless the
\* answer is a 200 with a vector
CallNewApiTrusts(response) == ApiOk(response.vec)

CallNewApi(response) == IF response.kind = "ok" THEN ApiOk(response.vec) ELSE ApiFail

\* the except branch of get_embedding
OnApiFailureRaise(text) == [raised |-> TRUE, vec |-> FallbackEmbedding(text)]

OnApiFailure(text) == [raised |-> FALSE, vec |-> FallbackEmbedding(text)]

InCacheNever(cache, text) == FALSE

InCache(cache, text) == \E e \in cache : e.text = text

Cached(cache, text) == (CHOOSE e \in cache : e.text = text).vec

\* get_embedding keeping the endpoint's vectors only
GetEmbeddingFallbackUncached(cache, text, api) ==
    IF InCache(cache, text)
    THEN [raised |-> FALSE, vec |-> Cached(cache, text), cache |-> cache,
          requested |-> FALSE, failed |-> FALSE]
    ELSE IF api.ok
    THEN [raised |-> FALSE, vec |-> api.vec,
          cache |-> cache \cup {[text |-> text, vec |-> api.vec]},
          requested |-> TRUE, failed |-> FALSE]
    ELSE [raised |-> FALSE, vec |-> OnApiFailure(text).vec, cache |-> cache,
          requested |-> TRUE, failed |-> TRUE]

\* BaiduEmbeddingAPI.get_embedding.
\*   cache: embedding_cache, a set of [text, vec] with one entry per text
\*   api:   the endpoint's answer, should a request be made
GetEmbedding(cache, text, api) ==
    IF InCache(cache, text)
    THEN [raised |-> FALSE, vec |-> Cached(cache, text), cache |-> cache,
          requested |-> FALSE, failed |-> FALSE]
    ELSE IF api.ok
    THEN [raised |-> FALSE, vec |-> api.vec,
          cache |-> cache \cup {[text |-> text, vec |-> api.vec]},
          requested |-> TRUE, failed |-> FALSE]
    ELSE LET fb == OnApiFailure(text)
         IN  [raised |-> fb.raised, vec |-> fb.vec,
              cache |-> IF fb.raised THEN cache
                        ELSE cache \cup {[text |-> text, vec |-> fb.vec]},
              requested |-> TRUE, failed |-> TRUE]

\* ------------------------------------------------------ knowledge store

Record(id, type, tags, content) ==
    [id |-> id, type |-> type, tags |-> tags, content |-> content]

\* ' '.join(item['tags'])
RECURSIVE JoinSpace(_)
JoinSpace(texts) ==
    IF texts = <<>> THEN <<>>
    ELSE IF Len(texts) = 1 THEN Head(texts)
    ELSE Head(texts) \o <<SP>> \o JoinSpace(Tail(texts))

\* the text _build_vector_db embeds for a record
EmbedText(item) == JoinSpace(item.tags) \o <<SP>> \o item.content

\* str.split(): the maximal runs of characters that are not whitespace
RECURSIVE Words(_)
Words(t) ==
    LET s == LStrip(t)
        stops == {i \in 1..Len(s) : IsSpace(s[i])}
        stop == IF stops = {} THEN Len(s) + 1 ELSE CHOOSE i \in stops : \A j \in stops : i <= j
    IN  IF s = <<>> THEN <<>>
        ELSE <<SubSeq(s, 1, stop - 1)>> \o Words(SubSeq(s, stop, Len(s)))

\* seq[-k:] for k >= 0
LastSlice(seq, k) ==
    IF k = 0 THEN seq
    ELSE SubSeq(seq, IF Len(seq) - k + 1 < 1 THEN 1 ELSE Len(seq) - k + 1, Len(seq))

\* seq[:k] for k >= 0
FirstSlice(seq, k) == SubSeq(seq, 1, Min(k, Len(seq)))

\* seq[::-1]
Reverse(seq) == [i \in 1..Len(seq) |-> seq[Len(seq) + 1 - i]]

\* the matrix np.array(embeddings) makes is rectangular
Rectangular(matrix) == \A i, j \in 1..Len(matrix) : matrix[i].dim = matrix[j].dim

\* cosine_similarity([query_embedding], vector_db) raises
CosineRaises(query_vec, matrix) ==
    \/ ~Rectangular(matrix)
    \/ \E i \in 1..Len(matrix) : matrix[i].dim /= query_vec.dim

\* one entry of cosine_similarity(...)[0], in thirtieths
Cosine(a, b) == 30 * (a.dir[1] * b.dir[1] + a.dir[2] * b.dir[2])

Similarities(query_vec, matrix) == [i \in 1..Len(matrix) |-> Cosine(query_vec, matrix[i])]

\* numpy argsort: the positions in ascending order of value; below 17 elements
\* numpy sorts by insertion, which keeps equal values in position order
RECURSIVE InsertSorted(_, _, _)
InsertSorted(order, i, values) ==
    IF order = <<>> THEN <<i>>
    ELSE IF values[order[Len(order)]] <= values[i] THEN Append(order, i)
    ELSE Append(InsertSorted(SubSeq(order, 1, Len(order) - 1), i, values), order[Len(order)])

RECURSIVE ArgSortFrom(_, _, _)
ArgSortFrom(order, i, values) ==
    IF i > Len(values) THEN order
    ELSE ArgSortFrom(InsertSorted(order, i, values), i + 1, values)

ArgSort(values) == ArgSortFrom(<<>>, 1, values)

Result(item, similarity) ==
    [content |-> item.content, similarity |-> similarity, type |-> item.type]

\* the results made from the records at the ranks, not at the indices
CosineResultsByRank(data, similarities, top_k) ==
    LET top == Reverse(LastSlice(ArgSort(similarities), top_k))
    IN  [i \in 1..Len(top) |-> Result(data[i], similarities[top[i]])]

\* the cosine path of retrieve_knowledge: top_indices and the results
TopIndices(similarities, top_k) == Reverse(LastSlice(ArgSort(similarities), top_k))

CosineResults(data, similarities, top_k) ==
    LET top == TopIndices(similarities, top_k)
    IN  [i \in 1..Len(top) |-> Result(data[top[i]], similarities[top[i]])]

\* the score of _fallback_retrieval for one record, in halves
KeywordScore(item, query) ==
    LET query_lower == Lower(query)
        content == Lower(item.content)
        words == Words(query_lower)
        hits == {i \in 1..Len(item.tags) : IsSubstr(Lower(item.tags[i]), query_lower)}
    IN  2 * Cardinality(hits)
        + (IF \E w \in 1..Len(words) : IsSubstr(words[w], content) THEN 1 ELSE 0)

\* the score left without its cap
KeywordSimilarityUncapped(score) == 5 * score

\* min(score / 3, 0.9), in thirtieths
KeywordSimilarity(score) == Min(5 * score, 27)

\* the records _fallback_retrieval scores above 0, in store order
RECURSIVE KeywordHits(_, _)
KeywordHits(data, query) ==
    IF data = <<>> THEN <<>>
    ELSE LET score == KeywordScore(Head(data), query)
         IN  (IF score > 0 THEN <<Result(Head(data), KeywordSimilarity(score))>> ELSE <<>>)
             \o KeywordHits(Tail(data), query)

\* the sort without reverse=True
RECURSIVE InsertAscending(_, _)
InsertAscending(sorted, r) ==
    IF sorted = <<>> THEN <<r>>
    ELSE IF sorted[Len(sorted)].similarity <= r.similarity THEN Append(sorted, r)
    ELSE Append(InsertAscending(SubSeq(sorted, 1, Len(sorted) - 1), r), sorted[Len(sorted)])

\* list.sort(key=similarity, reverse=True): stable, equal keys keep their order
RECURSIVE InsertDescending(_, _)
InsertDescending(sorted, r) ==
    IF sorted = <<>> THEN <<r>>
    ELSE IF sorted[Len(sorted)].similarity >= r.similarity THEN Append(sorted, r)
    ELSE Append(InsertDescending(SubSeq(sorted, 1, Len(sorted) - 1), r), sorted[Len(sorted)])

RECURSIVE SortDescendingFrom(_, _)
SortDescendingFrom(sorted, rest) ==
    IF rest = <<>> THEN sorted
    ELSE SortDescendingFrom(InsertDescending(sorted, Head(rest)), Tail(rest))

\* KnowledgeBase._fallback_retrieval
FallbackRetrieval(data, query, top_k) ==
    FirstSlice(SortDescendingFrom(<<>>, KeywordHits(data, query)), top_k)

\* KnowledgeBase.retrieve_knowledge (API version): the path taken, the results
\* and the cache it leaves
RetrieveKnowledge(data, matrix, cache, query, top_k, api) ==
    LET emb == GetEmbedding(cache, query, api)
        base == [cache |-> emb.cache, requested |-> emb.requested, failed |-> emb.failed,
                 query_vec |-> emb.vec]
    IN  IF emb.raised
        THEN base @@ [path |-> "keyword", results |-> FallbackRetrieval(data, query, top_k)]
        ELSE IF Len(matrix) = 0
        THEN base @@ [path |-> "empty", results |-> <<>>]
        ELSE IF CosineRaises(emb.vec, matrix)
        THEN base @@ [path |-> "keyword", results |-> FallbackRetrieval(data, query, top_k)]
        ELSE base @@ [path |-> "cosine",
                      results |-> CosineResults(data, Similarities(emb.vec, matrix), top_k)]

\* ------------------------------------------------------------- variables

VARIABLES
    impl,                  \* which AgentManager: "typewriter" or "legacy"
    interaction_count,     \* AgentManager.interaction_count
    conversation_history,  \* AgentManager.conversation_history
    gc_messages,           \* AgentManager.group_chat.messages
    clock,                 \* time.time(), as a logical clock
    all_entries,           \* every history entry appended since the last reset
    last,                  \* what the last operation on the manager did
    pc,                    \* where the caller of the manager is: "prompt", "streaming", "check"
    gen,                   \* the generator of generate_response_with_typewriter, suspended
    conversation_count,    \* conversation_count of main
    model_temperature,     \* config.MODEL_CONFIG["temperature"], in tenths
    agent_temperature,     \* llm_config["temperature"] of the agents, in tenths
    request_temperatures,  \* the temperatures of the LLM requests of the last query
    knowledge_data,        \* KnowledgeBase.knowledge_data
    vector_db,             \* KnowledgeBase.vector_db, one row per record
    embedding_cache,       \* BaiduEmbeddingAPI.embedding_cache
    provider_dim,          \* the length of the vectors the endpoint returns
    kb_last,               \* what the last operation on the store did
    kb_file,               \* the store file at KNOWLEDGE_DB_PATH
    kb_pc,                 \* "idle", or "building" inside _build_vector_db
    kb_rows,               \* the list embeddings of the _build_vector_db running
    np_ragged,             \* np.array on rows of unequal length: "object" or "raise"
    np_random,             \* the state of numpy's global generator
    emb_last,              \* what the last call made on the provider itself did
    fallback_calls,        \* every fallback embedding made: its text and vector
    tw_text,               \* streamer: the text handed to _typewriter_output
    tw_chunks,             \* streamer: the chunks yielded
    tw_done                \* streamer: the generator is exhausted

loopVars == <<pc, gen, conversation_count>>

configVars == <<model_temperature, agent_temperature, request_temperatures>>

sessionVars == <<impl, interaction_count, conversation_history, gc_messages, clock,
                 all_entries, last, loopVars, configVars>>

twVars == <<tw_text, tw_chunks, tw_done>>

storeVars == <<knowledge_data, vector_db, kb_last, kb_file, kb_pc, kb_rows, np_ragged>>

providerVars == <<embedding_cache, provider_dim, np_random, emb_last, fallback_calls>>

kbVars == <<storeVars, providerVars>>

vars == <<impl, interaction_count, conversation_history, gc_messages, clock,
          all_entries, last, pc, gen, conversation_count, model_temperature,
          agent_temperature, request_temperatures, knowledge_data, vector_db, embedding_cache, provider_dim,
          kb_last, kb_file, kb_pc, kb_rows, np_ragged, np_random, emb_last,
          fallback_calls,
          tw_text, tw_chunks, tw_done>>

\* ------------------------------------------------- session: operations

\* what an operation on the manager is remembered by
Observed(op, query, accepted, run) ==
    [op |-> op, query |-> query, accepted |-> accepted,
     capped |-> interaction_count >= MAX_INTERACTION_COUNT,
     after_reset |-> last.op \in {"reset", "auto_reset"},
     after_capped_reset |-> last.op \in {"reset", "auto_reset"} /\ last.capped,
     primary |-> run.primary, primary_text |-> run.primary_text,
     fallbacks |-> run.fallbacks, retrievals |-> run.retrievals,
     chat_runs |-> run.chat_runs, chat_summary |-> run.chat_summary,
     stream_input |-> run.stream_input,
     chunks |-> run.chunks, result |-> run.result, raised |-> run.raised]

Nothing == Rejected(<<>>)

\* no generator is suspended
NoGenerator == [query |-> <<>>, run |-> Nothing, emitted |-> 0]

\* MODEL_CONFIG["temperature"] of config.py and the temperature of the
\* GroupChatManager, in tenths
DEFAULT_TEMPERATURE == 7

MANAGER_TEMPERATURE == 3

\* the agents that have an llm_config
LlmAgents(version) ==
    IF version = "legacy" THEN {"DeepSeek_Agent"}
    ELSE {"Knowledge_Retriever", "Research_Assistant", "Workflow_Validator", "DeepSeek_Agent"}

\* the temperature the agents' requests carry, read from the configuration
\* at every request
AgentTemperatureLive(at_init, configured) == configured

\* the temperature the agents' requests carry: the one copied into
\* deepseek_config by _init_autogen_agents
AgentTemperature(at_init, configured) == at_init

\* the temperatures of the requests of a query: of the agents that spoke in
\* its group chat, and of the direct requests of its fallback runs
UsedTemperatures(version, history, fallbacks) ==
    {[path |-> "primary",
      temperature |-> AgentTemperature(agent_temperature, model_temperature)] :
        i \in {j \in 1..Len(history) : history[j].name \in LlmAgents(version)}}
    \cup {[path |-> "fallback", temperature |-> model_temperature] :
             i \in {j \in 1..Len(fallbacks) : fallbacks[j].requests /= <<>>}}

InitSession ==
    /\ pc = "prompt"
    /\ gen = NoGenerator
    /\ conversation_count = 0
    /\ model_temperature = DEFAULT_TEMPERATURE
    /\ agent_temperature = DEFAULT_TEMPERATURE
    /\ request_temperatures = {}
    /\ interaction_count = 0
    /\ conversation_history = <<>>
    /\ gc_messages = <<>>
    /\ clock = 0
    /\ all_entries = <<>>
    /\ last = [op |-> "init", query |-> <<>>, accepted |-> FALSE, capped |-> FALSE,
               after_reset |-> FALSE, after_capped_reset |-> FALSE,
               primary |-> "none", primary_text |-> <<>>, fallbacks |-> <<>>,
               retrievals |-> 0, chat_runs |-> 0, chat_summary |-> <<>>,
               stream_input |-> <<>>, chunks |-> <<>>, result |-> <<>>, raised |-> FALSE]

\* the interaction cap of generate_response and generate_response_with_typewriter
AtCapNever(count) == FALSE

AtCap(count) == count >= MAX_INTERACTION_COUNT

\* ResearchFlowAgent.process_query on the typewriter version: _clean_input, then
\* generate_response_with_typewriter iterated to its end
Answer(raw_query, env) ==
    /\ impl = "typewriter"
    /\ LET query == CleanInput(raw_query)
       IN  IF AtCap(interaction_count)
           THEN /\ last' = Observed("query", query, FALSE, Rejected(<<AdvisoryChunk>>))
                /\ request_temperatures' = {}
                /\ UNCHANGED <<interaction_count, conversation_history, gc_messages,
                               clock, all_entries>>
           ELSE LET run == TypewriterRun(query, env)
                    entries == TypewriterEntries(query, run.result, clock + 1)
                IN  /\ gc_messages' = env.chat.history
                    /\ conversation_history' = KeepLatest(conversation_history \o entries)
                    /\ interaction_count' = interaction_count + 1
                    /\ clock' = clock + 1
                    /\ all_entries' = all_entries \o entries
                    /\ last' = Observed("query", query, TRUE, run)
                    /\ request_temperatures' =
                           UsedTemperatures(impl, env.chat.history, run.fallbacks)
    /\ UNCHANGED <<impl, model_temperature, agent_temperature, kbVars, twVars>>

\* process_query called on its own, outside the command loop
ProcessQuery(raw_query, env) == Answer(raw_query, env) /\ UNCHANGED loopVars

\* AgentManager.generate_response of the legacy version
GenerateResponse(query, env) ==
    /\ impl = "legacy"
    /\ IF AtCap(interaction_count)
       THEN /\ last' = Observed("query", query, FALSE, Rejected(<<AdvisoryText>>))
            /\ request_temperatures' = {}
            /\ UNCHANGED <<interaction_count, conversation_history, gc_messages,
                           all_entries>>
       ELSE LET run == LegacyRun(query, env, gc_messages)
                entries == LegacyEntries(query, run.result)
            IN  /\ gc_messages' = run.messages
                /\ IF run.recorded
                   THEN /\ conversation_history' =
                               KeepLatest(conversation_history \o entries)
                        /\ interaction_count' = interaction_count + 1
                        /\ all_entries' = all_entries \o entries
                   ELSE UNCHANGED <<conversation_history, interaction_count, all_entries>>
                /\ last' = Observed("query", query, TRUE, run)
                /\ request_temperatures' =
                       UsedTemperatures(impl,
                                        IF run.chat_runs = 1 /\ env.chat.kind = "ok"
                                        THEN env.chat.history ELSE <<>>,
                                        run.fallbacks)
    /\ UNCHANGED <<impl, clock, model_temperature, agent_temperature, loopVars, kbVars,
                   twVars>>

\* the state reset_conversation leaves
CountAfterResetKept(count) == count

CountAfterReset(count) == 0

\* AgentManager.reset_conversation (both versions)
ClearConversationBy(op) ==
    /\ conversation_history' = <<>>
    /\ interaction_count' = CountAfterReset(interaction_count)
    /\ gc_messages' = <<>>
    /\ all_entries' = <<>>
    /\ last' = Observed(op, <<>>, FALSE, Nothing)
    /\ UNCHANGED <<impl, clock, configVars, kbVars, twVars>>

ClearConversation == ClearConversationBy("reset")

\* reset_conversation called on its own, outside the command loop
ResetConversation == ClearConversation /\ UNCHANGED loopVars

\* ---------------------------------------------------- streamer: the runs

MaxTextLen == 5

StreamChars == {"a", NL, SP}

RECURSIVE TextsUpTo(_)
TextsUpTo(n) ==
    IF n = 0 THEN {<<>>}
    ELSE LET shorter == TextsUpTo(n - 1)
         IN  shorter \cup {Append(t, c) : t \in {s \in shorter : Len(s) = n - 1}, c \in StreamChars}

StreamTexts == TextsUpTo(MaxTextLen)

StreamIdle == tw_text = <<>> /\ tw_chunks = <<>> /\ tw_done = FALSE

\* ---------------------------------------------------- store: operations

NoRetrieval ==
    [op |-> "init", query |-> <<>>, top_k |-> 0, path |-> "none", results |-> <<>>,
     requested |-> FALSE, failed |-> FALSE, query_vec |-> Vec(0, <<0, 0>>),
     records |-> 0, raised |-> FALSE, new_id |-> 0, concurrent |-> FALSE]

\* the provider before its first call
NoEmbedding ==
    [op |-> "init", text |-> <<>>, vec |-> Vec(0, <<0, 0>>), requested |-> FALSE,
     failed |-> FALSE, raised |-> FALSE, kind |-> "none"]

\* numpy's generator before np.random.seed is first called
Unseeded == RandomState(0, 0)

\* the generator after a call of get_embedding that answered r for text
RandomAfter(state, text, r) ==
    IF r.failed THEN GenerateFallbackEmbedding(state, text).state ELSE state

\* the fallback embeddings made so far, with the one of a call that answered r
FallbacksAfter(calls, text, r) ==
    IF r.failed THEN calls \cup {[text |-> text, vec |-> r.vec]} ELSE calls

ProviderIdle ==
    /\ embedding_cache = {}
    /\ provider_dim = FALLBACK_DIM
    /\ np_random = Unseeded
    /\ emb_last = NoEmbedding
    /\ fallback_calls = {}

\* the store file holding data
StoreFile(data) == [exists |-> TRUE, data |-> data]

\* the store of a run that does not use it
StoreIdle ==
    /\ knowledge_data = <<>>
    /\ vector_db = <<>>
    /\ kb_last = NoRetrieval
    /\ kb_file = StoreFile(<<>>)
    /\ kb_pc = "idle"
    /\ kb_rows = <<>>
    /\ np_ragged = "object"
    /\ ProviderIdle

\* KnowledgeBase.retrieve_knowledge(query, top_k), the endpoint answering api
Retrieve(query, top_k, api) ==
    LET r == RetrieveKnowledge(knowledge_data, vector_db, embedding_cache, query, top_k, api)
    IN  /\ embedding_cache' = r.cache
        /\ np_random' = RandomAfter(np_random, query, r)
        /\ fallback_calls' =
               FallbacksAfter(fallback_calls, query, [failed |-> r.failed, vec |-> r.query_vec])
        /\ kb_last' = [op |-> "retrieve", query |-> query, top_k |-> top_k,
                       path |-> r.path, results |-> r.results,
                       requested |-> r.requested, failed |-> r.failed,
                       query_vec |-> r.query_vec, records |-> Len(knowledge_data),
                       raised |-> FALSE, new_id |-> 0,
                       concurrent |-> kb_pc = "building"]
        /\ UNCHANGED <<knowledge_data, vector_db, provider_dim, kb_file, kb_pc, kb_rows,
                       np_ragged, emb_last, sessionVars, twVars>>

\* ---- the store before the embedding API (src/knowledge_base.py)

\* "embedding": None
NoVector == Vec(0, <<0, 0>>)

LegacyRecord(id, type, tags, content, embedding) ==
    [id |-> id, type |-> type, tags |-> tags, content |-> content,
     embedding |-> embedding]

\* embedding_model.encode(text): a vector fixed by the text
LegacyEncode(text) ==
    Vec(FALLBACK_DIM, IF Len(text) % 2 = 0 THEN <<1, 0>> ELSE <<0, 1>>)

\* max([item['id'] for item in knowledge_data])
MaxId(data) ==
    CHOOSE m \in {data[i].id : i \in 1..Len(data)} :
        \A i \in 1..Len(data) : data[i].id <= m

\* the id taken from the number of records
NewIdByCount(data) == Len(data) + 1

\* the id add_knowledge gives the new record
NewId(data) == IF Len(data) > 0 THEN MaxId(data) + 1 ELSE 1

\* what an add or a rebuild is remembered by
AddDone(op, new_id, raised) ==
    [NoRetrieval EXCEPT !.op = op, !.new_id = new_id, !.raised = raised,
                        !.records = Len(knowledge_data)]

\* add_knowledge up to its call of _build_vector_db.
\*   API version: the id, the append, the save.
\*   src/knowledge_base.py: max() of no ids raises; else the append of a record
\*   without embedding.
AddKnowledge(knowledge_type, tags, content) ==
    /\ kb_pc = "idle"
    /\ IF impl = "typewriter"
       THEN LET item == Record(NewId(knowledge_data), knowledge_type, tags, content)
            IN  /\ knowledge_data' = Append(knowledge_data, item)
                /\ kb_file' = StoreFile(knowledge_data')
                /\ kb_pc' = "building"
                /\ kb_last' = AddDone("add", item.id, FALSE)
       ELSE IF knowledge_data = <<>>
            THEN /\ kb_last' = AddDone("add", 0, TRUE)
                 /\ UNCHANGED <<knowledge_data, kb_file, kb_pc>>
            ELSE LET item == LegacyRecord(MaxId(knowledge_data) + 1, knowledge_type,
                                          tags, content, NoVector)
                 IN  /\ knowledge_data' = Append(knowledge_data, item)
                     /\ kb_pc' = "building"
                     /\ kb_last' = AddDone("add", item.id, FALSE)
                     /\ UNCHANGED kb_file
    /\ kb_rows' = <<>>
    /\ UNCHANGED <<vector_db, np_ragged, providerVars, sessionVars, twVars>>

\* the record written anew, its position for id
AttachRenumbering(data, i, vec) ==
    [data EXCEPT ![i] = LegacyRecord(i, @.type, @.tags, @.content, vec)]

\* item['embedding'] = embedding.tolist()
AttachEmbedding(data, i, vec) == [data EXCEPT ![i].embedding = vec]

\* what a reader of self.vector_db finds while _build_vector_db fills its list
VisibleRowsPartial(matrix, rows) == rows

VisibleRows(matrix, rows) == matrix

\* one turn of the loop of _build_vector_db, on the next record.
\*   API version: the row is what get_embedding returns.
\*   src/knowledge_base.py: a record without embedding is encoded and the vector
\*   attached to it; encode raising, or a record without the key "embedding",
\*   ends the rebuild.
BuildRow(response, encode_ok) ==
    /\ kb_pc = "building"
    /\ Len(kb_rows) < Len(knowledge_data)
    /\ LET i == Len(kb_rows) + 1
           item == knowledge_data[i]
           text == EmbedText(item)
       IN  IF impl = "typewriter"
           THEN LET r == GetEmbedding(embedding_cache, text, CallNewApi(response))
                IN  /\ kb_rows' = Append(kb_rows, r.vec)
                    /\ vector_db' = VisibleRows(vector_db, kb_rows')
                    /\ embedding_cache' = r.cache
                    /\ np_random' = RandomAfter(np_random, text, r)
                    /\ fallback_calls' = FallbacksAfter(fallback_calls, text, r)
                    /\ UNCHANGED <<knowledge_data, kb_pc, kb_last>>
           ELSE /\ IF "embedding" \notin DOMAIN item
                   THEN /\ kb_rows' = <<>>
                        /\ kb_pc' = "idle"
                        /\ kb_last' = AddDone("rebuild", kb_last.new_id, TRUE)
                        /\ UNCHANGED knowledge_data
                   ELSE IF item.embedding /= NoVector
                   THEN /\ kb_rows' = Append(kb_rows, item.embedding)
                        /\ UNCHANGED <<knowledge_data, kb_pc, kb_last>>
                   ELSE IF encode_ok
                   THEN /\ kb_rows' = Append(kb_rows, LegacyEncode(text))
                        /\ knowledge_data' =
                               AttachEmbedding(knowledge_data, i, LegacyEncode(text))
                        /\ UNCHANGED <<kb_pc, kb_last>>
                   ELSE /\ kb_rows' = <<>>
                        /\ kb_pc' = "idle"
                        /\ kb_last' = AddDone("rebuild", kb_last.new_id, TRUE)
                        /\ UNCHANGED knowledge_data
                /\ vector_db' = VisibleRows(vector_db, kb_rows')
                /\ UNCHANGED <<embedding_cache, np_random, fallback_calls>>
    /\ UNCHANGED <<kb_file, np_ragged, provider_dim, emb_last, sessionVars, twVars>>

\* the end of _build_vector_db and the assignment of its result.
\*   np.array(embeddings) on rows of unequal length raises or makes an array of
\*   objects, by the numpy installed; src/knowledge_base.py saves the store first.
BuildDone ==
    /\ kb_pc = "building"
    /\ Len(kb_rows) = Len(knowledge_data)
    /\ IF ~Rectangular(kb_rows) /\ np_ragged = "raise"
       THEN /\ kb_last' = AddDone("rebuild", kb_last.new_id, TRUE)
            /\ UNCHANGED vector_db
       ELSE /\ kb_last' = AddDone("rebuild", kb_last.new_id, FALSE)
            /\ vector_db' = kb_rows
    /\ kb_file' = IF impl = "legacy" THEN StoreFile(knowledge_data) ELSE kb_file
    /\ kb_pc' = "idle"
    /\ kb_rows' = <<>>
    /\ UNCHANGED <<knowledge_data, np_ragged, providerVars, sessionVars, twVars>>

\* retrieve_knowledge of src/knowledge_base.py: nothing is caught
LegacyRetrieveKnowledge(data, matrix, query, top_k, encode_ok) ==
    LET query_vec == LegacyEncode(query)
    IN  IF ~encode_ok \/ Len(matrix) = 0 \/ CosineRaises(query_vec, matrix)
        THEN [raised |-> TRUE, path |-> "raised", results |-> <<>>, query_vec |-> query_vec]
        ELSE [raised |-> FALSE, path |-> "cosine", query_vec |-> query_vec,
              results |-> CosineResults(data, Similarities(query_vec, matrix), top_k)]

LegacyRetrieve(query, top_k, encode_ok) ==
    /\ impl = "legacy"
    /\ LET r == LegacyRetrieveKnowledge(knowledge_data, vector_db, query, top_k, encode_ok)
       IN  kb_last' = [op |-> "retrieve", query |-> query, top_k |-> top_k,
                       path |-> r.path, results |-> r.results,
                       requested |-> FALSE, failed |-> ~encode_ok,
                       query_vec |-> r.query_vec, records |-> Len(knowledge_data),
                       raised |-> r.raised, new_id |-> 0,
                       concurrent |-> kb_pc = "building"]
    /\ UNCHANGED <<knowledge_data, vector_db, kb_file, kb_pc, kb_rows, np_ragged,
                   providerVars, sessionVars, twVars>>

SessionIdle == impl = "typewriter" /\ InitSession

InitStream ==
    /\ tw_text \in StreamTexts /\ tw_chunks = <<>> /\ tw_done = FALSE
    /\ SessionIdle
    /\ StoreIdle

\* a caller iterates the generator to its end
StreamText ==
    /\ ~tw_done
    /\ tw_chunks' = TypewriterOutput(tw_text)
    /\ tw_done' = TRUE
    /\ UNCHANGED <<tw_text, sessionVars, kbVars>>

NextStream == StreamText

SpecStream == InitStream /\ [][NextStream]_vars

\* ------------------------------------------------- session: the runs

\* accepted queries of the typewriter version in one run
MaxClock == 6

\* the answers of the model and of the agents
LongAnswer == Rep("a", MIN_RESPONSE_LEN)

ShortAnswer == Rep("a", MIN_RESPONSE_LEN - 1)

PaddedShortAnswer == ShortAnswer \o <<SP>>

MarkedAnswer == LongAnswer \o MarkerFinal

NestedMarkerAnswer ==
    <<"[", "zui", "zhong">> \o MarkerDesign \o <<"hui", "da", "]">> \o LongAnswer

ParagraphAnswer == Rep("b", MIN_RESPONSE_LEN) \o <<NL, NL, NL, "b">>

DesignText == <<"D", "e", "s", "i", "g", "n">>

\* what retrieve_knowledge does during a query: it raises, or returns the
\* contents of the records it found
RetrievalRaise == [kind |-> "raise", results |-> <<>>]

RetrievalOk(results) == [kind |-> "ok", results |-> results]

KnowledgeHit == RetrievalOk(<< <<"k", "n", "o", "w">> >>)

KnowledgeMiss == RetrievalOk(<<>>)

RawQueries == { <<"q">>, <<SP, "w", NL>> }

Env(retrieval, chat, design, synthesis, design2, synthesis2) ==
    [retrieval |-> retrieval, chat |-> chat, design |-> design, synthesis |-> synthesis,
     design2 |-> design2, synthesis2 |-> synthesis2]

DesignMsg == Msg("Research_Assistant", "assistant", DesignText \o MarkerDesign)

ChatWithAnswer(answer) ==
    ChatResult(<<DesignMsg, Msg("DeepSeek_Agent", "assistant", answer)>>, answer)

\* the runs of Spec: long sessions, few kinds of answer
SessionEnv(retrieval, chat) ==
    Env(retrieval, chat, HttpOk(DesignText), HttpOk(ParagraphAnswer),
        HttpOk(DesignText), HttpOk(ParagraphAnswer))

SessionEnvs ==
    { SessionEnv(KnowledgeHit, ChatWithAnswer(MarkedAnswer)),
      SessionEnv(KnowledgeHit, ChatRaise),
      SessionEnv(RetrievalRaise, ChatWithAnswer(MarkedAnswer)) }

Init ==
    /\ impl \in {"typewriter", "legacy"}
    /\ InitSession
    /\ StreamIdle
    /\ StoreIdle

Next ==
    \/ \E q \in RawQueries, env \in SessionEnvs :
          (clock < MaxClock \/ AtCap(interaction_count)) /\ ProcessQuery(q, env)
    \/ \E q \in RawQueries, env \in SessionEnvs : GenerateResponse(q, env)
    \/ ResetConversation

Spec == Init /\ [][Next]_vars

\* ------------------------------------------- session: the generator

\* the first next() on generate_response_with_typewriter: at the cap the
\* advisory is yielded and the generator returns; below it the workflow runs
\* and the generator is suspended before its first chunk
GenStart(raw_query, env) ==
    /\ impl = "typewriter"
    /\ pc = "prompt"
    /\ LET query == CleanInput(raw_query)
       IN  IF AtCap(interaction_count)
           THEN /\ last' = Observed("query", query, FALSE, Rejected(<<AdvisoryChunk>>))
                /\ request_temperatures' = {}
                /\ UNCHANGED <<gc_messages, pc, gen>>
           ELSE LET run == TypewriterRun(query, env)
                IN  /\ gc_messages' = env.chat.history
                    /\ gen' = [query |-> query, run |-> run, emitted |-> 0]
                    /\ pc' = "streaming"
                    /\ request_temperatures' =
                           UsedTemperatures(impl, env.chat.history, run.fallbacks)
                    /\ UNCHANGED last
    /\ UNCHANGED <<impl, interaction_count, conversation_history, clock, all_entries,
                   conversation_count, model_temperature, agent_temperature, kbVars,
                   twVars>>

\* a next() that yields the next chunk
GenYield ==
    /\ pc = "streaming"
    /\ gen.emitted < Len(gen.run.chunks)
    /\ gen' = [gen EXCEPT !.emitted = @ + 1]
    /\ UNCHANGED <<impl, interaction_count, conversation_history, gc_messages, clock,
                   all_entries, last, pc, conversation_count, configVars, kbVars, twVars>>

\* the next() after the last chunk: the history is updated and the generator
\* returns
GenFinish ==
    /\ pc = "streaming"
    /\ gen.emitted = Len(gen.run.chunks)
    /\ LET entries == TypewriterEntries(gen.query, gen.run.result, clock + 1)
       IN  /\ conversation_history' = KeepLatest(conversation_history \o entries)
           /\ interaction_count' = interaction_count + 1
           /\ clock' = clock + 1
           /\ all_entries' = all_entries \o entries
           /\ last' = Observed("query", gen.query, TRUE, gen.run)
    /\ pc' = "prompt"
    /\ gen' = NoGenerator
    /\ UNCHANGED <<impl, gc_messages, conversation_count, configVars, kbVars, twVars>>

\* the caller stops iterating: the generator is closed where it is suspended
GenAbandon ==
    /\ pc = "streaming"
    /\ last' = Observed("abandoned", gen.query, TRUE, gen.run)
    /\ pc' = "prompt"
    /\ gen' = NoGenerator
    /\ UNCHANGED <<impl, interaction_count, conversation_history, gc_messages, clock,
                   all_entries, conversation_count, configVars, kbVars, twVars>>

\* queries of a run of SpecTurn
MaxTurnQueries == 2

\* a group chat in which the synthesis agent did not speak
DesignOnlyChat == ChatResult(<<DesignMsg>>, <<>>)

TurnEnvs ==
    { SessionEnv(KnowledgeHit, ChatWithAnswer(MarkedAnswer)),
      SessionEnv(KnowledgeHit, ChatRaise),
      SessionEnv(RetrievalRaise, ChatRaise),
      Env(KnowledgeHit, ChatRaise, HttpStatus(Code500), HttpOk(ParagraphAnswer),
          HttpStatus(Code500), HttpOk(ParagraphAnswer)),
      SessionEnv(KnowledgeHit, DesignOnlyChat) }

TurnQueries == { <<SP, "w", NL>> }

InitTurn ==
    /\ impl \in {"typewriter", "legacy"}
    /\ InitSession
    /\ StreamIdle
    /\ StoreIdle

NextTurn ==
    \/ \E q \in TurnQueries, env \in TurnEnvs : clock < MaxTurnQueries /\ GenStart(q, env)
    \/ GenYield
    \/ GenFinish
    \/ GenAbandon
    \/ \E q \in TurnQueries, env \in TurnEnvs :
          interaction_count < MaxTurnQueries /\ GenerateResponse(q, env)
    \/ pc = "prompt" /\ ResetConversation

SpecTurn == InitTurn /\ [][NextTurn]_vars

\* --------------------------------------------- session: the command loop
\* main() of main-checkpoint.py: one command or one query per turn of its
\* while loop. pc is "prompt" at input() and "check" between the return of
\* process_query and the test of the interaction count that follows it.

\* AgentManager.update_model_config(temperature=v): MODEL_CONFIG is written,
\* the llm_config of the agents is not
UpdateModelConfig(v) ==
    /\ model_temperature' = v
    /\ UNCHANGED <<impl, interaction_count, conversation_history, gc_messages, clock,
                   all_entries, last, agent_temperature, request_temperatures, loopVars,
                   kbVars, twVars>>

\* a line that is no command: process_query, then conversation_count += 1
LoopQuery(raw_query, env) ==
    /\ pc = "prompt"
    /\ Answer(raw_query, env)
    /\ pc' = "check"
    /\ conversation_count' = conversation_count + 1
    /\ UNCHANGED gen

\* KeyboardInterrupt raised after the history update of process_query and
\* before conversation_count += 1: the handler goes back to input()
LoopInterrupt(raw_query, env) ==
    /\ pc = "prompt"
    /\ Answer(raw_query, env)
    /\ UNCHANGED loopVars

\* "if status['interaction_count'] >= status['max_interactions']": the
\* automatic reset
LoopCheck ==
    /\ pc = "check"
    /\ pc' = "prompt"
    /\ IF AtCap(interaction_count)
       THEN /\ ClearConversationBy("auto_reset")
            /\ conversation_count' = 0
       ELSE UNCHANGED <<impl, interaction_count, conversation_history, gc_messages,
                        clock, all_entries, last, conversation_count, configVars,
                        kbVars, twVars>>
    /\ UNCHANGED gen

\* the command "reset"
LoopReset ==
    /\ pc = "prompt"
    /\ ClearConversation
    /\ conversation_count' = 0
    /\ UNCHANGED <<pc, gen>>

\* the command "param temperature=v"
LoopParam(v) ==
    /\ pc = "prompt"
    /\ UpdateModelConfig(v)

\* queries of a run of SpecLoop
MaxLoopQueries == 6

\* the temperatures the user sets, in tenths
LoopTemperatures == {2, DEFAULT_TEMPERATURE}

LoopEnvs ==
    { SessionEnv(KnowledgeHit, ChatWithAnswer(MarkedAnswer)),
      SessionEnv(KnowledgeHit, ChatRaise) }

LoopQueries == { <<SP, "w", NL>> }

InitLoop ==
    /\ impl = "typewriter"
    /\ InitSession
    /\ StreamIdle
    /\ StoreIdle

NextLoop ==
    \/ \E q \in LoopQueries, env \in LoopEnvs :
          (clock < MaxLoopQueries \/ AtCap(interaction_count)) /\ LoopQuery(q, env)
    \/ \E q \in LoopQueries, env \in LoopEnvs :
          (clock < MaxLoopQueries \/ AtCap(interaction_count)) /\ LoopInterrupt(q, env)
    \/ LoopCheck
    \/ LoopReset
    \/ \E v \in LoopTemperatures : LoopParam(v)

SpecLoop == InitLoop /\ [][NextLoop]_vars

\* the runs of SpecPipeline: the typewriter version, one query answered in
\* every way the environment can answer it
MaxPipelineQueries == 1

Unused == HttpRaise

Retrievals == {KnowledgeHit, KnowledgeMiss, RetrievalRaise}

DesignAnswers == {HttpRaise, HttpStatus(Code500), HttpMalformed, HttpOk(DesignText)}

SynthesisAnswers ==
    {HttpRaise, HttpStatus(Code500), HttpMalformed, HttpOk(LongAnswer), HttpOk(<<>>),
     HttpOk(MarkedAnswer), HttpOk(ParagraphAnswer), HttpOk(ShortAnswer)}

\* GroupChat(max_round=10) and initiate_chat(max_turns=8)
MAX_ROUND == 10

MAX_TURNS == 8

\* a chat whose budget ran out after the designer, the retriever speaking last
UnfinishedChat ==
    ChatResult(<<Msg("Research_Assistant", "assistant", LongAnswer \o MarkerDesign),
                 Msg("Knowledge_Retriever", "assistant", ParagraphAnswer)>>,
               ParagraphAnswer)

\* the validator's message is empty: method 2 stops at it
EmptyValidationChat ==
    ChatResult(<<Msg("Research_Assistant", "assistant", LongAnswer \o MarkerDesign),
                 Msg("Workflow_Validator", "assistant", <<>>)>>,
               ParagraphAnswer)

\* the synthesis agent spoke twice, the second time without content
RepeatedSynthesisChat ==
    ChatResult(<<Msg("DeepSeek_Agent", "assistant", LongAnswer),
                 Msg("DeepSeek_Agent", "assistant", <<>>)>>,
               ParagraphAnswer)

LongChats ==
    { ChatWithAnswer(MarkedAnswer),
      EmptyValidationChat,
      RepeatedSynthesisChat,
      ChatWithAnswer(NestedMarkerAnswer),
      UnfinishedChat,
      ChatResult(<<Msg("Research_Assistant", "assistant", LongAnswer \o MarkerDesign)>>,
                 <<>>),
      ChatResult(<<>>, LongAnswer \o MarkerFlow) }

ShortChats ==
    { ChatWithAnswer(ShortAnswer),
      ChatWithAnswer(PaddedShortAnswer),
      ChatWithAnswer(MarkerFinal),
      ChatResult(<<DesignMsg>>, <<>>),
      ChatResult(<<>>, <<>>) }

PipelineEnvs ==
    { Env(r, c, Unused, Unused, Unused, Unused) : r \in Retrievals, c \in LongChats }
    \cup { Env(r, c, Unused, Unused, d, s) :
             r \in Retrievals, c \in ShortChats, d \in DesignAnswers, s \in SynthesisAnswers }
    \cup { Env(r, ChatRaise, d, s, d2, s2) :
             r \in Retrievals, d \in DesignAnswers, s \in SynthesisAnswers,
             d2 \in {HttpStatus(Code500), HttpOk(DesignText)},
             s2 \in {HttpStatus(Code500), HttpOk(LongAnswer), HttpOk(<<>>)} }

PipelineQueries == { <<SP, "w", NL>> }

InitPipeline ==
    /\ impl = "typewriter"
    /\ InitSession
    /\ StreamIdle
    /\ StoreIdle

NextPipeline ==
    \/ \E q \in PipelineQueries, env \in PipelineEnvs :
          clock < MaxPipelineQueries /\ ProcessQuery(q, env)
    \/ ResetConversation

SpecPipeline == InitPipeline /\ [][NextPipeline]_vars

\* --------------------------------------------------- store: the runs

\* records of a store at construction, and the largest top_k asked for
MaxStore == 2

MaxTopK == 3

RecordPool ==
    { [type |-> "workflow", tags |-> << <<"x">>, <<"y">>, <<"x", "y">> >>,
       content |-> <<"x", SP, "c">>],
      [type |-> "fragment", tags |-> << <<"y">> >>, content |-> <<"d">>],
      [type |-> "other", tags |-> << <<"B">> >>, content |-> <<"z", "z">>] }

\* the stores of up to n records, with the ids 1..n in order
RECURSIVE StoresUpTo(_)
StoresUpTo(n) ==
    IF n = 0 THEN {<<>>}
    ELSE LET smaller == StoresUpTo(n - 1)
         IN  smaller \cup
             { Append(st, Record(n, t.type, t.tags, t.content)) :
                 st \in {x \in smaller : Len(x) = n - 1},
                 t \in RecordPool }

Distinct(store) ==
    \A i, j \in 1..Len(store) : i /= j => store[i].content /= store[j].content

Stores == {st \in StoresUpTo(MaxStore) : Distinct(st)}

ProviderDirs == { <<1, 0>> }

ProviderDims == {FALLBACK_DIM, 2 * FALLBACK_DIM}

ApiAnswers(dim) == {ApiFail} \cup {ApiOk(Vec(dim, d)) : d \in ProviderDirs}

\* the matrices _build_vector_db can leave for a store: every row is what
\* get_embedding returned, the endpoint's vector or the fallback vector
RECURSIVE MatricesOf(_, _)
MatricesOf(store, dim) ==
    IF store = <<>> THEN {<<>>}
    ELSE LET n == Len(store)
             rows == {a.vec : a \in {x \in ApiAnswers(dim) : x.ok}}
                     \cup {FallbackEmbedding(EmbedText(store[n]))}
         IN  {Append(m, v) : m \in MatricesOf(SubSeq(store, 1, n - 1), dim), v \in rows}

CacheOf(store, matrix) ==
    {[text |-> EmbedText(store[i]), vec |-> matrix[i]] : i \in 1..Len(store)}

\* the rows of a matrix that _build_vector_db got from the fallback
FallbackRows(store, matrix) ==
    {i \in 1..Len(store) : matrix[i] = FallbackEmbedding(EmbedText(store[i]))}

\* the generator after _build_vector_db made matrix for store
RandomOfBuild(state, store, matrix) ==
    LET rows == FallbackRows(store, matrix)
    IN  IF rows = {} THEN state
        ELSE LET n == CHOOSE i \in rows : \A j \in rows : j <= i
             IN  GenerateFallbackEmbedding(state, EmbedText(store[n])).state

FallbacksOfBuild(store, matrix) ==
    {[text |-> EmbedText(store[i]), vec |-> matrix[i]] : i \in FallbackRows(store, matrix)}

KBQueries == { <<"x", "y">>, <<"y", SP, "d", SP, "b">> }

InitKB ==
    /\ provider_dim \in ProviderDims
    /\ knowledge_data \in Stores
    /\ vector_db \in MatricesOf(knowledge_data, provider_dim)
    /\ embedding_cache = CacheOf(knowledge_data, vector_db)
    /\ kb_last = NoRetrieval
    /\ kb_file = StoreFile(knowledge_data)
    /\ kb_pc = "idle"
    /\ kb_rows = <<>>
    /\ np_ragged = "object"
    /\ np_random = RandomOfBuild(Unseeded, knowledge_data, vector_db)
    /\ emb_last = NoEmbedding
    /\ fallback_calls = FallbacksOfBuild(knowledge_data, vector_db)
    /\ SessionIdle
    /\ StreamIdle

NextKB ==
    \E q \in KBQueries, k \in 0..MaxTopK, api \in ApiAnswers(provider_dim) :
        Retrieve(q, k, api)

SpecKB == InitKB /\ [][NextKB]_vars

\* ------------------------------------------- store: adds and rebuilds

\* records of a store at construction, records a store grows to, and the
\* largest top_k asked of it
MaxInitialStore == 1

MaxRecords == 2

MaxStoreTopK == 1

\* a store whose ids are not its positions: odd, from 3, the largest first
Renumbered(store) ==
    [i \in 1..Len(store) |-> [store[i] EXCEPT !.id = 2 * (Len(store) - i) + 3]]

InitialStores ==
    LET plain == {st \in StoresUpTo(MaxInitialStore) : Distinct(st)}
    IN  plain \cup {Renumbered(st) : st \in plain}

\* the store src/knowledge_base.py holds after construction: every record has
\* its embedding
LegacyStoreOf(store) ==
    [i \in 1..Len(store) |->
        LegacyRecord(store[i].id, store[i].type, store[i].tags, store[i].content,
                     LegacyEncode(EmbedText(store[i])))]

LegacyMatrixOf(data) == [i \in 1..Len(data) |-> data[i].embedding]

StoreResponses(dim) == {EndpointRaise} \cup {EndpointOk(Vec(dim, d)) : d \in ProviderDirs}

StoreQueries == { <<"x", "y">> }

InitStore ==
    /\ impl \in {"typewriter", "legacy"}
    /\ IF impl = "typewriter"
       THEN /\ provider_dim \in ProviderDims
            /\ np_ragged \in {"object", "raise"}
            /\ knowledge_data \in InitialStores
            /\ vector_db \in MatricesOf(knowledge_data, provider_dim)
            /\ np_ragged = "raise" => Rectangular(vector_db)
            /\ embedding_cache = CacheOf(knowledge_data, vector_db)
            /\ np_random = RandomOfBuild(Unseeded, knowledge_data, vector_db)
            /\ fallback_calls = FallbacksOfBuild(knowledge_data, vector_db)
       ELSE /\ provider_dim = FALLBACK_DIM
            /\ np_ragged = "raise"
            /\ knowledge_data \in {LegacyStoreOf(st) : st \in InitialStores}
            /\ vector_db = LegacyMatrixOf(knowledge_data)
            /\ embedding_cache = {}
            /\ np_random = Unseeded
            /\ fallback_calls = {}
    /\ kb_file = StoreFile(knowledge_data)
    /\ kb_last = NoRetrieval
    /\ kb_pc = "idle"
    /\ kb_rows = <<>>
    /\ emb_last = NoEmbedding
    /\ InitSession
    /\ StreamIdle

NextStore ==
    \/ \E t \in RecordPool :
          Len(knowledge_data) < MaxRecords /\ AddKnowledge(t.type, t.tags, t.content)
    \/ \E response \in StoreResponses(provider_dim), encode_ok \in BOOLEAN :
          BuildRow(response, encode_ok)
    \/ BuildDone
    \/ \E q \in StoreQueries, k \in 0..MaxStoreTopK, api \in ApiAnswers(provider_dim) :
          impl = "typewriter" /\ Retrieve(q, k, api)
    \/ \E q \in StoreQueries, k \in 0..MaxStoreTopK, encode_ok \in BOOLEAN :
          LegacyRetrieve(q, k, encode_ok)

SpecStore == InitStore /\ [][NextStore]_vars

\* ------------------------------------------------ store: construction

\* the records _load_knowledge_db starts a store with
DefaultWorkflow ==
    [id |-> 1, type |-> "protein_workflow",
     tags |-> << <<"dan", "bai", "zhi">>,
               <<"jie", "gou", "yu", "ce">>,
               <<"3", "D", "ke", "shi5", "hua">>,
               <<"P", "D", "B">> >>,
     content |->
        <<"yong", "hu", "shu", "ru", "dan", "bai", "zhi", "xu", "lie", "(", "dan1",
        "tiao", "huo", "duo", "tiao", ")", "->", SP, "yan", "zheng", "xu", "lie", "you",
        "xiao", "xing", SP, "->", SP, "diao", "yong", SP, "A", "P", "I", SP, "yu", "ce",
        "jie", "gou", SP, "->", SP, "zhan", "shi", SP, "3", "D", SP, "jie", "gou",
        "dun", "an", "ji", "suan", "fen", "bu", "he", SP, "R", "a", "m", "a", "c", "h",
        "a", "n", "d", "r", "a", "n", SP, "tu", SP, "->", SP, "ti", "gong", SP, "P",
        "D", "B", SP, "wen", "jian", "xia", "zai">>]

DefaultValidation ==
    [id |-> 2, type |-> "fragment",
     tags |-> << <<"yan", "zheng">>,
               <<"xu", "lie", "you", "xiao", "xing">> >>,
     content |->
        <<"xu", "lie", "you", "xiao", "xing", "yan", "zheng", "bu2", "zhou", ":",
        "jian2", "cha", "an", "ji", "suan", "zi", "fu", "shi2", "fou", "you", "xiao",
        ",", "qu", "chu", "fei", "fa", "zi", "fu", ",", "yan", "zheng", "xu", "lie",
        "chang", "du">>]

DefaultPrediction ==
    [id |-> 3, type |-> "fragment",
     tags |-> << <<"A", "P", "I", "diao", "yong">>,
               <<"jie", "gou", "yu", "ce">> >>,
     content |->
        <<"shi3", "yong", "A", "l", "p", "h", "a", "F", "o", "l", "d", "2", "huo", "R",
        "o", "s", "e", "T", "T", "A", "F", "o", "l", "d", SP, "A", "P", "I", "jin",
        "xing2", "dan", "bai", "zhi", "jie", "gou", "yu", "ce">>]

DefaultOther ==
    [id |-> 4, type |-> "other_workflow",
     tags |-> << <<"ji", "yin", "fen", "xi">>,
               <<"xu", "lie", "bi", "dui">> >>,
     content |->
        <<"ji", "yin", "xu", "lie", "fen", "xi", "liu", "cheng2", ":", "shu", "ru", "D",
        "N", "A", "xu", "lie", SP, "->", SP, "B", "L", "A", "S", "T", "bi", "dui", SP,
        "->", SP, "ji", "yin", "zhu", "shi4", SP, "->", SP, "gong2", "neng", "yu",
        "ce">>]

DefaultQuery ==
    <<"dan", "bai", "zhi", "jie", "gou", "yu", "ce", "liu", "cheng2">>

DefaultKnowledge ==
    <<DefaultWorkflow, DefaultValidation, DefaultPrediction, DefaultOther>>

\* the same records in src/knowledge_base.py: each with "embedding": None
LegacyDefaultKnowledge ==
    [i \in 1..Len(DefaultKnowledge) |->
        LegacyRecord(DefaultKnowledge[i].id, DefaultKnowledge[i].type,
                     DefaultKnowledge[i].tags, DefaultKnowledge[i].content, NoVector)]

\* no file at KNOWLEDGE_DB_PATH
NoStoreFile == [exists |-> FALSE, data |-> <<>>]

\* _load_knowledge_db without its save
LoadKnowledgeDbUnsaved(version, file) ==
    IF file.exists THEN [data |-> file.data, file |-> file, path |-> "file"]
    ELSE [data |-> IF version = "legacy" THEN LegacyDefaultKnowledge ELSE DefaultKnowledge,
          file |-> file, path |-> "defaults"]

\* _load_knowledge_db: the records returned and the file left
LoadKnowledgeDb(version, file) ==
    IF file.exists THEN [data |-> file.data, file |-> file, path |-> "file"]
    ELSE LET default_knowledge ==
                 IF version = "legacy" THEN LegacyDefaultKnowledge ELSE DefaultKnowledge
         IN  [data |-> default_knowledge, file |-> StoreFile(default_knowledge),
              path |-> "defaults"]

\* KnowledgeBase.__init__ up to its call of _build_vector_db
Load ==
    /\ kb_pc = "new"
    /\ LET r == LoadKnowledgeDb(impl, kb_file)
       IN  /\ knowledge_data' = r.data
           /\ kb_file' = r.file
           /\ kb_last' = [NoRetrieval EXCEPT !.op = "load", !.path = r.path,
                                             !.records = Len(r.data)]
    /\ kb_pc' = "building"
    /\ kb_rows' = <<>>
    /\ UNCHANGED <<vector_db, np_ragged, providerVars, sessionVars, twVars>>

\* records of the file a store is constructed from, and the largest top_k asked
\* of it
MaxFileStore == 1

MaxLoadTopK == 2

\* the files found at construction: none, one written by this version, one
\* written by the other version
StoreFiles ==
    {NoStoreFile}
    \cup {StoreFile(st) : st \in {x \in StoresUpTo(MaxFileStore) : Distinct(x)}}
    \cup {StoreFile(LegacyStoreOf(st)) : st \in {x \in StoresUpTo(MaxFileStore) : Distinct(x)}}

LoadQueries == {DefaultQuery}

\* the constructor raised: there is no store to call
ConstructionFailed == kb_last.op = "rebuild" /\ kb_last.raised

InitLoad ==
    /\ impl \in {"typewriter", "legacy"}
    /\ IF impl = "typewriter"
       THEN provider_dim \in ProviderDims /\ np_ragged \in {"object", "raise"}
       ELSE provider_dim = FALLBACK_DIM /\ np_ragged = "raise"
    /\ kb_file \in StoreFiles
    /\ knowledge_data = <<>>
    /\ vector_db = <<>>
    /\ kb_last = NoRetrieval
    /\ kb_pc = "new"
    /\ kb_rows = <<>>
    /\ embedding_cache = {}
    /\ np_random = Unseeded
    /\ emb_last = NoEmbedding
    /\ fallback_calls = {}
    /\ InitSession
    /\ StreamIdle

NextLoad ==
    \/ Load
    \/ \E response \in StoreResponses(provider_dim), encode_ok \in BOOLEAN :
          BuildRow(response, encode_ok)
    \/ BuildDone
    \/ /\ kb_pc = "idle"
       /\ ~ConstructionFailed
       /\ impl = "typewriter"
       /\ \E q \in LoadQueries, k \in 0..MaxLoadTopK, api \in ApiAnswers(provider_dim) :
             Retrieve(q, k, api)
    \/ /\ kb_pc = "idle"
       /\ ~ConstructionFailed
       /\ \E q \in LoadQueries, k \in 0..MaxLoadTopK, encode_ok \in BOOLEAN :
             LegacyRetrieve(q, k, encode_ok)

SpecLoad == InitLoad /\ [][NextLoad]_vars

\* ------------------------------------------------- provider: the runs

\* BaiduEmbeddingAPI.get_embedding(text), the endpoint answering response
Embed(text, response) ==
    LET r == GetEmbedding(embedding_cache, text, CallNewApi(response))
    IN  /\ embedding_cache' = r.cache
        /\ np_random' = RandomAfter(np_random, text, r)
        /\ fallback_calls' = FallbacksAfter(fallback_calls, text, r)
        /\ emb_last' = [op |-> "embed", text |-> text, vec |-> r.vec,
                        requested |-> r.requested, failed |-> r.failed,
                        raised |-> r.raised,
                        kind |-> IF r.requested THEN response.kind ELSE "none"]
        /\ UNCHANGED <<provider_dim, storeVars, sessionVars, twVars>>

\* BaiduEmbeddingAPI._generate_fallback_embedding(text), called on its own
FallbackEmbed(text) ==
    LET g == GenerateFallbackEmbedding(np_random, text)
    IN  /\ np_random' = g.state
        /\ fallback_calls' = fallback_calls \cup {[text |-> text, vec |-> g.vec]}
        /\ emb_last' = [op |-> "fallback", text |-> text, vec |-> g.vec,
                        requested |-> FALSE, failed |-> FALSE, raised |-> FALSE,
                        kind |-> "none"]
        /\ UNCHANGED <<embedding_cache, provider_dim, storeVars, sessionVars, twVars>>

\* texts that differ in case, in a trailing blank, and in length
EmbedTexts == { <<"x">>, <<"X">>, <<"x", SP>> }

Responses(dim) ==
    {EndpointRaise, EndpointStatus, EndpointMalformed}
    \cup {EndpointOk(Vec(dim, d)) : d \in {<<1, 0>>, <<0, 1>>}}

InitEmbed ==
    /\ embedding_cache = {}
    /\ provider_dim \in ProviderDims
    /\ np_random \in {RandomState(s, d) : s \in 0..1, d \in 0..1}
    /\ emb_last = NoEmbedding
    /\ fallback_calls = {}
    /\ knowledge_data = <<>>
    /\ vector_db = <<>>
    /\ kb_last = NoRetrieval
    /\ kb_file = StoreFile(<<>>)
    /\ kb_pc = "idle"
    /\ kb_rows = <<>>
    /\ np_ragged = "object"
    /\ SessionIdle
    /\ StreamIdle

NextEmbed ==
    \/ \E t \in EmbedTexts, response \in Responses(provider_dim) : Embed(t, response)
    \/ \E t \in EmbedTexts : FallbackEmbed(t)

SpecEmbed == InitEmbed /\ [][NextEmbed]_vars

\* ------------------------------------------------------------- claims

HasMarker(text) == \E i \in 1..Len(Markers) : IsSubstr(Markers[i], text)

Stages(requests) == [i \in 1..Len(requests) |-> requests[i].stage]

\* C1: process_query / generate_response never raises; whatever fails, the call
\* returns a string.
C1_NeverRaises == last.op = "query" => ~last.raised

\* C2 as stated: when the primary workflow raises, the fallback is invoked and
\* issues exactly two requests, design then synthesis, the synthesis prompt
\* containing the design response, and returns a non-empty string.
C2_ExactlyTwoRequests ==
    (last.op = "query" /\ last.primary = "raised") =>
        /\ ~last.raised
        /\ Len(last.fallbacks) >= 1
        /\ LET fb == last.fallbacks[1]
           IN  /\ Stages(fb.requests) = <<"design", "synthesis">>
               /\ IsSubstr(fb.answers[1].content, fb.requests[2].prompt)
               /\ fb.text /= <<>>

\* C2 as amended: when the primary workflow raises, the fallback is invoked and
\* returns a string instead of raising. Every fallback invocation issues at most
\* two requests, the design request first (unless its own retrieval raised) and
\* the synthesis request only after a design answer with status 200 and a
\* well-formed body; the synthesis prompt then contains the design response. The
\* string returned is empty only when the synthesis answer itself is empty.
C2_FallbackRequests ==
    (last.op = "query" /\ last.primary = "raised") =>
        /\ ~last.raised
        /\ Len(last.fallbacks) >= 1
        /\ \A i \in 1..Len(last.fallbacks) :
             LET fb == last.fallbacks[i]
                 n == Len(fb.requests)
             IN  /\ Stages(fb.requests) = SubSeq(<<"design", "synthesis">>, 1, n)
                 /\ n = 0 <=> ~fb.retrieved
                 /\ n = 2 <=> (n >= 1 /\ fb.answers[1].kind = "ok")
                 /\ n = 2 => /\ fb.answers[1].content /= <<>>
                             /\ IsSubstr(fb.answers[1].content, fb.requests[2].prompt)
                 /\ fb.text = <<>> => (n = 2 /\ fb.answers[2] = HttpOk(<<>>))

C2_Witness ==
    /\ last.op = "query" /\ last.primary = "raised"
    /\ Len(last.fallbacks) = 1
    /\ Stages(last.fallbacks[1].requests) = <<"design", "synthesis">>
    /\ last.result = LongAnswer

\* C3: when the primary workflow returns without an exception a response that is
\* empty or, trimmed, shorter than 20 characters, the fallback is invoked and its
\* result is the text handed to the streamer: the chunks streamed are the
\* streamer's chunks of the fallback's result, the value returned is their
\* concatenation and the assistant entry recorded is that value cleaned.
C3_ShortResponseFallsBack ==
    ( /\ last.op = "query" /\ last.accepted /\ last.primary = "returned"
      /\ \/ last.primary_text = <<>>
         \/ Len(Strip(last.primary_text)) < MIN_RESPONSE_LEN ) =>
        /\ Len(last.fallbacks) = 1
        /\ last.stream_input = last.fallbacks[1].text
        /\ last.chunks = TypewriterOutput(last.fallbacks[1].text)
        /\ last.result = Concat(last.chunks)
        /\ conversation_history[Len(conversation_history)].role = "assistant"
        /\ conversation_history[Len(conversation_history)].content
               = CleanText(Concat(last.chunks))

C3_Witness ==
    /\ last.op = "query" /\ last.accepted /\ last.primary = "returned"
    /\ last.primary_text = ShortAnswer
    /\ Len(last.fallbacks) = 1
    /\ last.stream_input = LongAnswer
    /\ last.result = LongAnswer
    /\ conversation_history[Len(conversation_history)].content = LongAnswer

\* C4: at the interaction cap every query returns the fixed advisory message,
\* retrieves nothing, calls no model and leaves interaction_count and
\* conversation_history as they are; only a reset leaves the cap.
C4_CapRejects ==
    [][ interaction_count >= MAX_INTERACTION_COUNT =>
          /\ last'.op = "query" =>
               /\ last'.result = (IF impl = "typewriter" THEN AdvisoryChunk ELSE AdvisoryText)
               /\ last'.retrievals = 0
               /\ last'.chat_runs = 0
               /\ last'.fallbacks = <<>>
               /\ interaction_count' = interaction_count
               /\ conversation_history' = conversation_history
          /\ interaction_count' < MAX_INTERACTION_COUNT => last'.op = "reset" ]_vars

C4_Witness ==
    /\ last.op = "query" /\ last.capped /\ ~last.accepted
    /\ interaction_count = MAX_INTERACTION_COUNT
    /\ last.result = AdvisoryChunk

\* C5: conversation_history never holds more than 8 entries, and they are the
\* most recent entries appended since the last reset, in their order.
C5_HistoryIsLatestEight ==
    /\ Len(conversation_history) <= HISTORY_CAP
    /\ LET n == Len(all_entries)
           k == Min(n, HISTORY_CAP)
       IN  conversation_history = SubSeq(all_entries, n - k + 1, n)

C5_Witness ==
    /\ Len(all_entries) = 10
    /\ Len(conversation_history) = 8
    /\ conversation_history[1] = all_entries[3]
    /\ conversation_history[1] /= all_entries[1]

\* C6: a reset in any state, the capped state included, leaves interaction_count
\* 0, conversation_history empty and the group chat's message list empty, and
\* the query after it is accepted and processed.
C6_ResetClears ==
    /\ last.op = "reset" =>
         /\ interaction_count = 0
         /\ conversation_history = <<>>
         /\ gc_messages = <<>>
    /\ (last.op = "query" /\ last.after_reset) =>
         /\ last.accepted
         /\ last.retrievals >= 1
         /\ ~last.raised => (interaction_count = 1 /\ Len(conversation_history) = 2)

C6_Witness ==
    /\ last.op = "query" /\ last.after_capped_reset
    /\ last.accepted /\ interaction_count = 1

\* C7: the text returned for a query contains none of the four stage markers.
C7_NoMarkerReturned == (last.op = "query" /\ ~last.raised) => ~HasMarker(last.result)

\* C8: for every text t, the concatenation of all chunks the streamer yields
\* for t is exactly t.
C8_StreamPreservesText == tw_done => Concat(tw_chunks) = tw_text

\* C9: on a non-empty store, retrieve returns at most top_k results, in order
\* of non-increasing similarity, for every top_k >= 0.
C9_AtMostTopKSorted ==
    (kb_last.op = "retrieve" /\ kb_last.records > 0) =>
        /\ Len(kb_last.results) <= kb_last.top_k
        /\ \A i \in 1..(Len(kb_last.results) - 1) :
             kb_last.results[i].similarity >= kb_last.results[i + 1].similarity

C17_FailureGivesFallback ==
    (emb_last.op = "embed" /\ emb_last.requested /\ emb_last.kind /= "ok") =>
        /\ ~emb_last.raised
        /\ emb_last.failed
        /\ emb_last.vec = FallbackEmbedding(emb_last.text)

C17_Witness ==
    /\ emb_last.op = "embed" /\ emb_last.kind = "malformed"
    /\ emb_last.vec = FallbackEmbedding(<<"x", SP>>)
    /\ \E e \in embedding_cache : e.text = <<"X">> /\ e.vec.dim = provider_dim

\* C18: the fallback embedding is deterministic: all fallback embeddings of one
\* text made on a provider are the same vector, whatever was embedded between
\* them and whatever state the generator was in.
C18_FallbackDeterministic ==
    \A a, b \in fallback_calls : a.text = b.text => a.vec = b.vec

C18_Witness ==
    /\ emb_last.op = "fallback" /\ emb_last.text = <<"x">>
    /\ np_random = RandomState(Md5Seed(<<"x">>), 1)
    /\ \E c \in fallback_calls : c.text = <<"x", SP>>
    /\ \E e \in embedding_cache : e.text = <<"x">> /\ e.vec = emb_last.vec

\* C19: a text whose embedding is in the cache is answered from the cache, with
\* the vector cached and without a request, and the cache keeps every entry; a
\* text that is not in the cache, however close to one that is, makes a request.
C19_CacheHits ==
    [][ /\ \A e \in embedding_cache : e \in embedding_cache'
        /\ (emb_last'.op = "embed" /\ emb_last' /= emb_last) =>
              IF \E e \in embedding_cache : e.text = emb_last'.text
              THEN /\ ~emb_last'.requested
                   /\ \E e \in embedding_cache :
                         e.text = emb_last'.text /\ e.vec = emb_last'.vec
                   /\ embedding_cache' = embedding_cache
              ELSE /\ emb_last'.requested
                   /\ \E e \in embedding_cache' :
                         e.text = emb_last'.text /\ e.vec = emb_last'.vec ]_vars

C19_Witness ==
    /\ emb_last.op = "embed" /\ emb_last.text = <<"x">> /\ ~emb_last.requested
    /\ emb_last.vec = Vec(provider_dim, <<1, 0>>)
    /\ \E e \in embedding_cache : e.text = <<"X">> /\ e.vec = Vec(provider_dim, <<0, 1>>)

\* the place in the store of the record a result was made from
StorePosition(result) ==
    CHOOSE i \in 1..Len(knowledge_data) : knowledge_data[i].content = result.content

\* C20: on the cosine path, results of equal similarity come in the order their
\* records have in the store, and of the records tied across the top_k cut-off
\* the ones returned are the earlier ones of the store.
C20_TiesInStoreOrder ==
    (kb_last.op = "retrieve" /\ kb_last.path = "cosine") =>
        LET results == kb_last.results
            sims == Similarities(kb_last.query_vec, vector_db)
            returned == {StorePosition(results[i]) : i \in 1..Len(results)}
        IN  /\ \A i, j \in 1..Len(results) :
                  (i < j /\ results[i].similarity = results[j].similarity)
                      => StorePosition(results[i]) < StorePosition(results[j])
            /\ \A i \in 1..Len(results), r \in 1..Len(knowledge_data) :
                  (r \notin returned /\ sims[r] = results[i].similarity)
                      => StorePosition(results[i]) < r

\* C11: retrieve_knowledge on a store without records returns no result and
\* does not raise, whatever the query and top_k.
C11_EmptyStoreRetrieves ==
    (kb_last.op = "retrieve" /\ kb_last.records = 0) =>
        /\ ~kb_last.raised
        /\ kb_last.results = <<>>

\* C12: add_knowledge appends one record as the last of the store, made of the
\* type, tags and content given, with the id max(existing ids) + 1, or 1 when
\* the store has no record.
C12_AddGivesNextId ==
    [][ (kb_pc = "idle" /\ kb_last'.op = "add" /\ kb_last' /= kb_last) =>
          /\ ~kb_last'.raised
          /\ Len(knowledge_data') = Len(knowledge_data) + 1
          /\ SubSeq(knowledge_data', 1, Len(knowledge_data)) = knowledge_data
          /\ LET item == knowledge_data'[Len(knowledge_data')]
             IN  /\ item.id = kb_last'.new_id
                 /\ \E t \in RecordPool :
                       item.type = t.type /\ item.tags = t.tags /\ item.content = t.content
                 /\ IF knowledge_data = <<>> THEN item.id = 1
                    ELSE /\ \A i \in 1..Len(knowledge_data) : knowledge_data[i].id < item.id
                         /\ \E i \in 1..Len(knowledge_data) :
                               knowledge_data[i].id + 1 = item.id ]_vars

\* C13: whenever no build is running (after construction, after an add or a
\* rebuild, whether or not embedding calls failed), vector_db has one row per
\* record and row i is the embedding of record i.
C13_RowPerRecord ==
    kb_pc = "idle" =>
        /\ Len(vector_db) = Len(knowledge_data)
        /\ \A i \in 1..Len(knowledge_data) :
              IF impl = "typewriter"
              THEN \E e \in embedding_cache :
                      e.text = EmbedText(knowledge_data[i]) /\ e.vec = vector_db[i]
              ELSE knowledge_data[i].embedding = vector_db[i]

\* C14: the matrix a reader finds in vector_db changes only when a build ends,
\* and then to the complete matrix of that build, one row per record; while
\* the build runs a retrieval works on the matrix of before.
C14_MatrixReplacedWhole ==
    [][ vector_db' /= vector_db =>
          /\ kb_pc = "building" /\ kb_pc' = "idle"
          /\ vector_db' = kb_rows
          /\ Len(vector_db') = Len(knowledge_data) ]_vars

C14_Witness ==
    /\ kb_last.op = "retrieve" /\ kb_last.concurrent
    /\ kb_pc = "building"
    /\ Len(kb_rows) = 1 /\ Len(knowledge_data) = 2 /\ Len(vector_db) = 1
    /\ kb_rows[1] = vector_db[1]
    /\ Len(kb_last.results) = 1

\* the stage an agent of the group chat stands for, 0 for the user proxy
StageOfAgent(name) ==
    CASE name = "Knowledge_Retriever" -> 1
      [] name = "Research_Assistant" -> 2
      [] name = "Workflow_Validator" -> 3
      [] name = "DeepSeek_Agent" -> 4
      [] OTHER -> 0

StageOfRequest(stage) == IF stage = "design" THEN 2 ELSE 4

RECURSIVE FallbackStages(_)
FallbackStages(fallbacks) ==
    IF fallbacks = <<>> THEN <<>>
    ELSE LET fb == Head(fallbacks)
         IN  (IF fb.retrievals > 0 THEN <<1>> ELSE <<>>)
             \o [i \in 1..Len(fb.requests) |-> StageOfRequest(fb.requests[i].stage)]
             \o FallbackStages(Tail(fallbacks))

\* the stages the last query ran, in the order they ran: the retrieval of the
\* primary path, the agents that spoke in the group chat, then the fallbacks
StagesRun ==
    LET spoke == [i \in 1..Len(gc_messages) |-> StageOfAgent(gc_messages[i].name)]
    IN  <<1>> \o SelectSeq(spoke, LAMBDA n : n > 0) \o FallbackStages(last.fallbacks)

\* C15: within one query the stages run in the order retrieval, design,
\* validation, synthesis, none of them twice and none after a later one.
C15_StagesInOrder ==
    (last.op = "query" /\ last.accepted) =>
        \A i, j \in 1..Len(StagesRun) : i < j => StagesRun[i] < StagesRun[j]

\* the group chat of the last query ended without a non-empty message of the
\* synthesis agent
BudgetExhausted ==
    /\ last.op = "query" /\ last.accepted /\ last.primary = "returned"
    /\ \A i \in 1..Len(gc_messages) :
          ~(gc_messages[i].name = "DeepSeek_Agent" /\ gc_messages[i].content /= <<>>)

SpecScore(item, query) ==
    2 * Cardinality({t \in 1..Len(item.tags) : IsSubstr(Lower(item.tags[t]), Lower(query))})
    + (IF \E w \in 1..Len(Words(Lower(query))) :
              IsSubstr(Words(Lower(query))[w], Lower(item.content))
       THEN 1 ELSE 0)

\* min(score / 3, 0.9), in thirtieths
SpecSimilarity(item, query) ==
    IF 5 * SpecScore(item, query) <= 27 THEN 5 * SpecScore(item, query) ELSE 27

\* record i goes before record j in the ranking
RankedBefore(i, j, query) ==
    LET si == SpecSimilarity(knowledge_data[i], query)
        sj == SpecSimilarity(knowledge_data[j], query)
    IN  si > sj \/ (si = sj /\ i < j)

\* results is the ranking of the records in candidates, cut to top_k
IsRankingOf(results, candidates, query, top_k) ==
    /\ Len(results) = (IF top_k <= Cardinality(candidates) THEN top_k
                       ELSE Cardinality(candidates))
    /\ \A k \in 1..Len(results) :
          /\ StorePosition(results[k]) \in candidates
          /\ results[k].similarity
                = SpecSimilarity(knowledge_data[StorePosition(results[k])], query)
          /\ results[k].type = knowledge_data[StorePosition(results[k])].type
          /\ \A j \in candidates :
                RankedBefore(j, StorePosition(results[k]), query)
                    => \E h \in 1..(k - 1) : StorePosition(results[h]) = j

\* C21 (as amended): the keyword fallback scores every record
\* min((tags found in the lowercased query, the tags lowercased too, + 0.5 when
\* a whitespace-separated word of the query is in the lowercased content) / 3,
\* 0.9) and returns the records that score above 0, by descending score, ties in
\* store order, cut to top_k.
C21_KeywordRankingOfHits ==
    (kb_last.op = "retrieve" /\ kb_last.path = "keyword") =>
        IsRankingOf(kb_last.results,
                    {i \in 1..Len(knowledge_data) : SpecScore(knowledge_data[i], kb_last.query) > 0},
                    kb_last.query, kb_last.top_k)

\* C21 (as stated): the keyword fallback returns the ranking of all the
\* records, cut to top_k.
C21_KeywordRankingOfAll ==
    (kb_last.op = "retrieve" /\ kb_last.path = "keyword") =>
        IsRankingOf(kb_last.results, 1..Len(knowledge_data), kb_last.query, kb_last.top_k)

\* a keyword ranking that left out a record without a match, with one result at
\* the cap of 0.9 ranked first
C21_Witness ==
    /\ kb_last.op = "retrieve"
    /\ kb_last.path = "keyword"
    /\ Len(kb_last.results) = 1
    /\ Len(knowledge_data) = 2
    /\ kb_last.top_k = 2
    /\ kb_last.results[1].similarity = 27
    /\ SpecScore(knowledge_data[StorePosition(kb_last.results[1])], kb_last.query) > 5

\* the keyword path answered the query of the scenario on the default store
DefaultScenario ==
    /\ kb_last.op = "retrieve"
    /\ kb_last.path = "keyword"
    /\ knowledge_data = DefaultKnowledge
    /\ kb_last.query = DefaultQuery
    /\ kb_last.top_k >= 1

\* C22: on the store of the 4 default records, the keyword path answers the
\* query of the scenario (top_k at least 1) with record 1 (protein_workflow) in
\* the result and record 4 (other_workflow) nowhere before it.
C22_DefaultRanking ==
    DefaultScenario =>
        \E i \in 1..Len(kb_last.results) :
            /\ kb_last.results[i].content = DefaultWorkflow.content
            /\ kb_last.results[i].type = "protein_workflow"
            /\ \A j \in 1..(i - 1) : kb_last.results[j].content /= DefaultOther.content

\* the scenario answered with records 1 and 3, at 2/3 and 1/3
C22_Witness ==
    /\ DefaultScenario
    /\ Len(kb_last.results) = 2
    /\ kb_last.results[1].type = "protein_workflow"
    /\ kb_last.results[1].similarity = 20
    /\ kb_last.results[2].content = DefaultPrediction.content
    /\ kb_last.results[2].similarity = 10

\* C24: load returns the records of the store file when there is one, as they
\* are and leaving the file alone; without a file it returns the 4 default
\* records, ids 1 to 4, and the file holds them when it returns.
C24_LoadReturnsStore ==
    [][(kb_pc = "new" /\ kb_pc' /= "new") =>
          IF kb_file.exists
          THEN knowledge_data' = kb_file.data /\ kb_file' = kb_file
          ELSE /\ Len(knowledge_data') = 4
               /\ \A i \in 1..4 :
                     /\ knowledge_data'[i].id = i
                     /\ knowledge_data'[i].type = DefaultKnowledge[i].type
                     /\ knowledge_data'[i].tags = DefaultKnowledge[i].tags
                     /\ knowledge_data'[i].content = DefaultKnowledge[i].content
               /\ kb_file'.exists
               /\ kb_file'.data = knowledge_data']_vars

\* a store just loaded without a file: the defaults, written to the file
C24_Witness ==
    /\ kb_last.op = "load"
    /\ kb_last.path = "defaults"
    /\ kb_pc = "building"
    /\ kb_rows = <<>>
    /\ Len(knowledge_data) = 4
    /\ kb_file.exists

IdsDistinct(data) ==
    \A i, j \in 1..Len(data) : i /= j => data[i].id /= data[j].id

\* C23: the ids of the records of a store are pairwise distinct, at the start
\* and after every step, and the id of a record added is greater than the id of
\* every record the store held before.
C23_IdsFresh ==
    [][/\ IdsDistinct(knowledge_data)
       /\ IdsDistinct(knowledge_data')
       /\ \A k \in (Len(knowledge_data) + 1)..Len(knowledge_data') :
             \A i \in 1..Len(knowledge_data) :
                 knowledge_data'[k].id > knowledge_data[i].id]_vars

\* a record added to a store whose only record has id 3
C23_Witness ==
    /\ kb_last.op = "add"
    /\ ~kb_last.raised
    /\ Len(knowledge_data) = 2
    /\ knowledge_data[1].id = 3
    /\ knowledge_data[2].id = 4
    /\ kb_last.new_id = 4

\* C25: when an add has returned or raised, the store file holds the records
\* in memory, the new one included.
C25_FileIsMemory ==
    (kb_pc = "idle" /\ kb_last.op \in {"add", "rebuild"}) =>
        (kb_file.exists /\ kb_file.data = knowledge_data)

Core(item) ==
    [id |-> item.id, type |-> item.type, tags |-> item.tags, content |-> item.content]

HasEmbedding(item) ==
    "embedding" \in DOMAIN item /\ item.embedding /= NoVector

\* C26: no step removes or moves a record of the store or changes its id,
\* type, tags or content; a record changes only by getting the embedding it
\* did not have.
C26_AppendOnly ==
    [][/\ Len(knowledge_data') >= Len(knowledge_data)
       /\ \A i \in 1..Len(knowledge_data) :
             /\ Core(knowledge_data'[i]) = Core(knowledge_data[i])
             /\ DOMAIN knowledge_data'[i] = DOMAIN knowledge_data[i]
             /\ HasEmbedding(knowledge_data[i]) => knowledge_data'[i] = knowledge_data[i]]_vars

\* a record added to a store of src/knowledge_base.py got its embedding, next
\* to a record that was there before
C26_Witness ==
    /\ impl = "legacy"
    /\ kb_last.op = "rebuild"
    /\ ~kb_last.raised
    /\ Len(knowledge_data) = 2
    /\ knowledge_data[1].id = 3
    /\ kb_last.new_id = knowledge_data[2].id
    /\ HasEmbedding(knowledge_data[2])

\* C27: a turn of the rebuild on a record that has its embedding asks the
\* provider nothing, leaves the record as it is and takes the embedding for the
\* row; the rows come in the order of the records, and the matrix assigned is
\* the list of the rows.
C27_OnlyMissingEmbedded ==
    [][/\ (kb_pc = "building" /\ Len(kb_rows') = Len(kb_rows) + 1) =>
             LET i == Len(kb_rows')
             IN  /\ SubSeq(kb_rows', 1, i - 1) = kb_rows
                 /\ HasEmbedding(knowledge_data[i]) =>
                       /\ kb_rows'[i] = knowledge_data[i].embedding
                       /\ knowledge_data'[i] = knowledge_data[i]
                       /\ embedding_cache' = embedding_cache
                       /\ fallback_calls' = fallback_calls
       /\ (kb_pc = "building" /\ kb_pc' = "idle" /\ ~kb_last'.raised) =>
             vector_db' = kb_rows]_vars

\* C28: every result of a retrieval, of the cosine path and of the keyword
\* path, has a similarity from 0 to 1 (0 to 30 thirtieths).
C28_SimilarityInUnitRange ==
    kb_last.op = "retrieve" =>
        \A i \in 1..Len(kb_last.results) :
            /\ kb_last.results[i].similarity >= 0
            /\ kb_last.results[i].similarity <= 30

\* C29: one query runs _fallback_response at most once.
C29_FallbackAtMostOnce ==
    last.op = "query" => Len(last.fallbacks) <= 1

\* C30: in every state of the session manager the count of interactions is
\* from 0 to MAX_INTERACTION_COUNT and the history holds min(2 * count, 8)
\* entries.
C30_CountAndHistory ==
    /\ interaction_count >= 0
    /\ interaction_count <= MAX_INTERACTION_COUNT
    /\ Len(conversation_history)
          = (IF 2 * interaction_count <= 8 THEN 2 * interaction_count ELSE 8)

\* a query rejected at the cap, the history cut to its 8 latest entries
C30_Witness ==
    /\ last.op = "query"
    /\ ~last.accepted
    /\ last.capped
    /\ interaction_count = MAX_INTERACTION_COUNT
    /\ Len(conversation_history) = 8

\* ---------------------------------------------------- the last claims

\* what the claim says of one run of the fallback path
HardFailure(fb) ==
    /\ (Len(fb.answers) >= 1 /\ fb.answers[1].kind = "status") =>
          /\ Len(fb.requests) = 1
          /\ fb.requests[1].stage = "design"
          /\ fb.text = Rep("d", 11) \o fb.answers[1].content
    /\ (Len(fb.answers) = 2 /\ fb.answers[2].kind = "status") =>
          /\ fb.requests[2].stage = "synthesis"
          /\ fb.text = Rep("s", 11) \o fb.answers[2].content

\* C33: in the fallback path a status other than 200 on the design request
\* ends the run with the design-stage error text carrying the status code and
\* without a synthesis request; a status other than 200 on the synthesis
\* request gives the synthesis-stage error text carrying the code.
C33_NonOkIsHardFailure ==
    last.op = "query" =>
        \A i \in 1..Len(last.fallbacks) : HardFailure(last.fallbacks[i])

\* a query whose first fallback stopped at the design request and whose second
\* fallback stopped at the synthesis request
C33_Witness ==
    /\ last.op = "query"
    /\ Len(last.fallbacks) = 2
    /\ last.fallbacks[1].answers = <<HttpStatus(Code500)>>
    /\ Len(last.fallbacks[1].requests) = 1
    /\ last.fallbacks[2].answers = <<HttpOk(DesignText), HttpStatus(Code500)>>
    /\ last.result = Rep("s", 11) \o Code500

\* the positions of the group chat the priorities of the claim speak of
SynthesisPositions ==
    {i \in 1..Len(gc_messages) :
        gc_messages[i].name = "DeepSeek_Agent" /\ gc_messages[i].content /= <<>>}

OtherPositions ==
    {i \in 1..Len(gc_messages) :
        /\ gc_messages[i].role = "assistant"
        /\ gc_messages[i].name \notin {"User_Proxy", "Knowledge_Retriever"}}

Latest(positions) == CHOOSE i \in positions : \A j \in positions : j <= i

\* the text of the primary path for the content chosen: its markers removed,
\* trimmed, the placeholder when nothing is left
Returned(chosen) ==
    IF StripMarkers(chosen) = <<>> THEN Rep("p", 8) ELSE StripMarkers(chosen)

PrimaryReturned == last.op = "query" /\ last.accepted /\ last.primary = "returned"

\* C35 (as stated): the answer of the primary workflow is the most recent
\* non-empty message of the synthesis agent; without one, the most recent
\* assistant message of an agent other than User_Proxy and Knowledge_Retriever;
\* without one, the chat summary; the placeholder when that is empty.
C35_PriorityAsStated ==
    PrimaryReturned =>
        last.primary_text =
            Returned(IF SynthesisPositions /= {}
                     THEN gc_messages[Latest(SynthesisPositions)].content
                     ELSE IF OtherPositions /= {}
                     THEN gc_messages[Latest(OtherPositions)].content
                     ELSE last.chat_summary)

\* C35 (as amended): the summary is also the answer when the most recent
\* message of another agent is empty; earlier messages of other agents are not
\* looked at.
C35_PriorityWithEmptyMessage ==
    PrimaryReturned =>
        last.primary_text =
            Returned(IF SynthesisPositions /= {}
                     THEN gc_messages[Latest(SynthesisPositions)].content
                     ELSE IF OtherPositions /= {}
                             /\ gc_messages[Latest(OtherPositions)].content /= <<>>
                     THEN gc_messages[Latest(OtherPositions)].content
                     ELSE last.chat_summary)

\* the synthesis agent's latest message is empty and its earlier one is the
\* answer
C35_Witness ==
    /\ PrimaryReturned
    /\ Len(gc_messages) = 2
    /\ gc_messages[2].name = "DeepSeek_Agent"
    /\ gc_messages[2].content = <<>>
    /\ SynthesisPositions = {1}
    /\ last.primary_text = gc_messages[1].content
    /\ last.primary_text /= last.chat_summary

\* a step in which an accepted query ran to its end
QueryCompleted ==
    \/ /\ impl = "typewriter"
       /\ pc = "streaming"
       /\ pc' = "prompt"
       /\ last'.op = "query"
    \/ /\ impl = "legacy"
       /\ last'.op = "query"
       /\ last'.accepted
       /\ ~last'.raised
       /\ <<last, gc_messages, all_entries>>' /= <<last, gc_messages, all_entries>>

\* a step in which the caller gave up the stream of a query
QueryAbandoned == pc = "streaming" /\ pc' = "prompt" /\ last'.op = "abandoned"

\* the history got one user entry for query and one assistant entry for
\* response after it, and keeps what it held, cut to its 8 latest entries
ExchangeAppended(query, response) ==
    LET n == Len(conversation_history')
        kept == IF Len(conversation_history) + 2 <= 8 THEN Len(conversation_history)
                ELSE 6
    IN  /\ n = kept + 2
        /\ conversation_history'[n - 1].role = "user"
        /\ conversation_history'[n - 1].content = query
        /\ conversation_history'[n].role = "assistant"
        /\ conversation_history'[n].content = response
        /\ \A i \in 1..kept :
              conversation_history'[i]
                 = conversation_history[Len(conversation_history) - kept + i]

\* C31: a step that completes an accepted query appends one user entry and
\* one assistant entry after it and adds 1 to interaction_count, whatever made
\* the answer, and in the typewriter version it comes after every chunk of
\* the response has been yielded; a step that abandons a stream changes
\* neither, and no other step but a reset changes them.
C31_OneExchangePerQuery ==
    [][/\ QueryCompleted =>
             /\ interaction_count' = interaction_count + 1
             /\ IF impl = "typewriter"
                THEN /\ ExchangeAppended(CleanText(last'.query), CleanText(last'.result))
                     /\ gen.emitted = Len(gen.run.chunks)
                     /\ Concat(gen.run.chunks) = last'.result
                ELSE ExchangeAppended(last'.query, last'.result)
       /\ QueryAbandoned =>
             /\ interaction_count' = interaction_count
             /\ conversation_history' = conversation_history
       /\ (interaction_count' /= interaction_count
             \/ conversation_history' /= conversation_history) =>
             \/ QueryCompleted
             \/ interaction_count' = 0 /\ conversation_history' = <<>>]_vars

\* the second query of a session completed with the design-stage error
\* string of the fallback for response, its stream read to the end
C31_Witness ==
    /\ impl = "typewriter"
    /\ pc = "prompt"
    /\ last.op = "query"
    /\ last.accepted
    /\ last.primary = "raised"
    /\ Len(last.fallbacks) = 2
    /\ last.stream_input = DesignErrorText(Code500)
    /\ interaction_count = 2
    /\ Len(conversation_history) = 4
    /\ conversation_history[4].content = last.result

\* a step in which the group chat of a query ran and gave the answer
ChatAnswered ==
    IF impl = "legacy"
    THEN /\ last'.op = "query"
         /\ last'.accepted
         /\ last'.primary = "returned"
         /\ last'.fallbacks = <<>>
         /\ gc_messages' /= gc_messages
    ELSE /\ pc = "prompt"
         /\ pc' = "streaming"
         /\ gen'.run.primary = "returned"

\* the positions of group_chat.messages written while the step's query was
\* processed: the typewriter version empties the list before the chat, the
\* legacy version appends to what the list held
FreshPositions ==
    IF impl = "legacy" THEN (Len(gc_messages) + 1)..Len(gc_messages')
    ELSE 1..Len(gc_messages')

\* the texts the chat of the step's query can give for answer
FreshTexts ==
    IF impl = "legacy"
    THEN { gc_messages'[i].content :
              i \in { j \in FreshPositions : IsDeepSeekMessage(gc_messages'[j]) } }
    ELSE { StripMarkers(gc_messages'[i].content) : i \in FreshPositions }
           \cup {StripMarkers(gen'.run.chat_summary), PlaceholderText}

\* C32: the answer the group chat gives for a query is the text of a message
\* (or of the summary) produced while that query was processed, never that of
\* a synthesis-agent message an earlier query left in the chat.
C32_AnswerFromThisQuery ==
    [][ChatAnswered =>
          (IF impl = "legacy" THEN last'.result ELSE gen'.run.primary_text)
             \in FreshTexts]_vars

\* a step of the command loop in which a query was answered
LoopAnswered == pc = "prompt" /\ last'.op = "query" /\ (pc' = "check" \/ last' /= last)

\* C34 as stated: under the command loop a session at the interaction cap
\* stays at the cap, its queries answered with the advisory message, until
\* the reset command.
C34_CappedUntilResetCommand ==
    [][AtCap(interaction_count) =>
          \/ pc = "prompt" /\ last'.op = "reset" /\ interaction_count' = 0
          \/ /\ AtCap(interaction_count')
             /\ LoopAnswered => last'.result = AdvisoryChunk]_vars

\* C34: under the command loop the check that follows a query resets the
\* session by itself when the interaction count is at the cap; a query that
\* finds the session at the cap is answered with the advisory message and
\* changes neither count nor history; the session leaves the cap by a reset
\* only, the automatic one or the reset command.
C34_CapEndsByAutomaticReset ==
    [][/\ (pc = "check" /\ AtCap(interaction_count)) =>
             /\ pc' = "prompt"
             /\ last'.op = "auto_reset"
             /\ interaction_count' = 0
             /\ conversation_history' = <<>>
             /\ conversation_count' = 0
       /\ (AtCap(interaction_count) /\ LoopAnswered) =>
             /\ ~last'.accepted
             /\ last'.result = AdvisoryChunk
             /\ interaction_count' = interaction_count
             /\ conversation_history' = conversation_history
       /\ (AtCap(interaction_count) /\ ~AtCap(interaction_count')) =>
             /\ last'.op \in {"reset", "auto_reset"}
             /\ interaction_count' = 0]_vars

\* the session was reset by the check after its fifth query, no reset
\* command given, and the query after it was answered
C34_Witness ==
    /\ pc = "check"
    /\ last.op = "query"
    /\ last.accepted
    /\ last.after_reset
    /\ ~last.capped
    /\ clock = MAX_INTERACTION_COUNT + 1
    /\ interaction_count = 1
    /\ conversation_count = 1

\* C36: the LLM requests of a query carry the temperature that
\* update_model_config last set, on the multi-agent path and on the fallback
\* path.
C36_RequestsUseConfiguredTemperature ==
    [][LoopAnswered =>
          \A r \in request_temperatures' : r.temperature = model_temperature]_vars

\* the part of C36 that is about the fallback path
C36_FallbackUsesConfiguredTemperature ==
    [][LoopAnswered =>
          \A r \in request_temperatures' :
             r.path = "fallback" => r.temperature = model_temperature]_vars

\* a step in which get_embedding returned
EmbeddingReturned == emb_last'.op = "embed" /\ emb_last' /= emb_last

\* C37: the vector get_embedding returns for a text, the fallback vector of a
\* failed request included, is kept for that text from then on: the call
\* leaves it in the cache, the cache holds one vector per text and never
\* changes or drops one, and a call for a text that has one returns it and
\* makes no request.
C37_ReturnedVectorIsKept ==
    [][/\ EmbeddingReturned =>
             /\ [text |-> emb_last'.text, vec |-> emb_last'.vec] \in embedding_cache'
             /\ \A e \in embedding_cache :
                   e.text = emb_last'.text =>
                      emb_last'.vec = e.vec /\ ~emb_last'.requested
       /\ \A e \in embedding_cache : e \in embedding_cache'
       /\ \A a, b \in embedding_cache' : a.text = b.text => a = b]_vars

\* a text whose first request failed is asked for again on a provider of
\* another dimension: the fallback vector is returned, no request made
C37_Witness ==
    /\ provider_dim /= FALLBACK_DIM
    /\ emb_last.op = "embed"
    /\ emb_last.text = <<"x", SP>>
    /\ ~emb_last.requested
    /\ emb_last.vec = FallbackEmbedding(<<"x", SP>>)
    /\ emb_last.vec.dim = FALLBACK_DIM
    /\ [text |-> <<"x", SP>>, vec |-> emb_last.vec] \in fallback_calls
    /\ Cardinality(embedding_cache) = 3

\* the row at position i of the matrix was made for the record at position i
RowOfRecord(i) ==
    IF impl = "legacy" THEN vector_db[i] = knowledge_data[i].embedding
    ELSE [text |-> EmbedText(knowledge_data[i]), vec |-> vector_db[i]] \in embedding_cache

\* C38: whatever the interleaving of retrievals with adds and their rebuilds,
\* every row of the embedding matrix has a record at its position, the one it
\* was made for, and every result of a retrieval on the cosine path is the
\* content and type of one record with the similarity of that record's row.
C38_IndicesReferToRecords ==
    /\ Len(vector_db) <= Len(knowledge_data)
    /\ \A i \in 1..Len(vector_db) : RowOfRecord(i)
    /\ (kb_last.op = "retrieve" /\ kb_last.path = "cosine") =>
          \A j \in 1..Len(kb_last.results) :
             \E i \in 1..Len(vector_db) :
                kb_last.results[j]
                   = Result(knowledge_data[i], Cosine(kb_last.query_vec, vector_db[i]))

\* a retrieval made while an add was rebuilding the matrix, its new row
\* made already: the store holds one record more than the matrix read has
\* rows, and the result is the record of the row
C38_Witness ==
    /\ kb_pc = "building"
    /\ Len(kb_rows) = 2
    /\ Len(vector_db) = 1
    /\ Len(knowledge_data) = 2
    /\ kb_last.op = "retrieve"
    /\ kb_last.concurrent
    /\ kb_last.path = "cosine"
    /\ Len(kb_last.results) = 1
    /\ kb_last.results[1].content = knowledge_data[1].content
    /\ kb_last.results[1].content /= knowledge_data[2].content

\* the query vector of the last retrieval was compared with the matrix
QueryCompared == kb_last.op = "retrieve" /\ kb_last.path \in {"cosine", "keyword"}
                    /\ Len(vector_db) > 0

\* C39: the rows of the embedding matrix are of one dimension, and a query
\* vector compared with the matrix is of that dimension, whichever of them
\* came from the endpoint and whichever from the fallback.
C39_OneDimension ==
    /\ Rectangular(vector_db)
    /\ QueryCompared =>
          \A i \in 1..Len(vector_db) : vector_db[i].dim = kb_last.query_vec.dim

====
